---- MODULE Spec2Model ----
(***************************************************************************)
(* A model of the facility-extraction scripts of the repository.           *)
(*                                                                         *)
(* The repository holds several independent scripts that each implement    *)
(* the same pipeline (locate streams, build the character map, decode      *)
(* glyph codes, assemble records, assign slugs).  Each script is modelled  *)
(* by its own group of variables and its own specification:                *)
(*                                                                         *)
(*   SpecGS    generate_sites.py           parse_facilities (slug loop)    *)
(*   SpecST    scripts/generate_site.py    assemble_rows, finalize_...     *)
(*   SpecHX    scripts/extract_facilities.py  decode_hex_string            *)
(*   SpecDTS   generate_sites.py           decode_text_streams             *)
(*   SpecCM    scripts/extract_facilities.py  load_cmap (parsing)          *)
(*   SpecEF    scripts/extract_facilities.py  main, extract_lines          *)
(*   SpecXS    scripts/generate_site.py    extract_streams, build_cmap     *)
(*   SpecGM    generate_sites.py           parse_facilities, main          *)
(*   SpecSH    scripts/extract_shelters.py  _split_entries, _parse_entry   *)
(*   SpecGP    scripts/generate_pages.py   extract_facilities              *)
(*                                                                         *)
(* Text is a sequence of characters; a character is a one-element token    *)
(* (a short string naming it).  A decoded string is a sequence of code     *)
(* points (integers).                                                      *)
(***************************************************************************)
EXTENDS Integers, Sequences, FiniteSets, TLC

VARIABLES
    \* generate_sites.py, parse_facilities
    raw_entries,      \* the matches of the row pattern, in text order
    facilities,       \* the Facility list built by the slug loop
    slug_counts,      \* Dict[str, int]: base slug -> number of uses so far
    gs_pc,            \* "match" | "slug" | "done" | "raised"
    \* scripts/generate_site.py, assemble_rows and finalize_facilities
    sections,         \* the filtered token list given to assemble_rows
    rows,             \* assemble_rows: the rows closed so far
    current,          \* assemble_rows: the open row (<<>> is None)
    st_i,             \* number of tokens consumed by assemble_rows
    st_facilities,    \* finalize_facilities: the Facility list
    st_pc,            \* "assemble" | "finalize" | "done"
    \* scripts/extract_facilities.py, decode_hex_string
    hex_string,       \* the hexadecimal digits of one <...> group
    hx_cmap,          \* the cmap argument
    text,             \* the decoded text so far (code points)
    hx_i,             \* the loop variable i
    hx_pc,            \* "loop" | "done" | "raised"
    \* generate_sites.py, decode_text_streams
    pdf_streams,      \* the matches of stream\r?\n in pdf_bytes, in order
    dts_mapping,      \* the mapping argument
    decoded_chunks,   \* the decoded chunks so far (each a list of code points)
    dts_k,            \* number of stream matches handled
    dts_pc,           \* "loop" | "done" | "raised"
    \* scripts/extract_facilities.py, load_cmap (lines 50-73)
    cm_items,         \* the entries the character map was written from
    content,          \* the text of the character map: its blocks' bodies
    mapping,          \* the mapping being built
    cm_blk,           \* number of blocks handled by the running loop
    cm_pc,            \* "bfchar" | "bfrange" | "done"
    \* scripts/extract_facilities.py, main (lines 429-431) and extract_lines
    raw_pdf,          \* the container: the matches of stream\r?\n, in order
    cmap,             \* main: the mapping load_cmap returned
    text_blocks,      \* extract_lines: the block texts kept so far
    lines,            \* main: the lines extract_lines returned
    ef_k,             \* number of stream matches handled by extract_lines
    ef_pc,            \* "load" | "lines" | "parse" | "slug" | "done"
                      \* | "raised"
    ef_error,         \* the exception that ended the run, "none" otherwise
    ef_pending,       \* parse_facilities: pending
    ef_facilities,    \* parse_facilities: facilities; main: the same list
    ef_i,             \* number of lines handled by parse_facilities
    ef_idx,           \* number of records main has given a slug
    ef_files,         \* what the runs so far wrote: the dataset, the pages
    ef_run,           \* 1 in the first run of the script, 2 in the second
    ef_first,         \* the outcome of the first run, <<>> during it
    \* scripts/generate_site.py, extract_streams and extract_facilities
    pdf_bytes,        \* the matches of stream\r?\n in the file, in order
    streams,          \* extract_streams: the list built so far
    xs_k,             \* number of matches handled by extract_streams
    xs_cmap,          \* extract_facilities: the mapping build_cmap returned
    xs_sections,      \* extract_facilities: the decoded sections so far
    xs_j,             \* number of streams handled by the loop of line 161
    xs_pc,            \* "streams" | "decode" | "clean" | "raised"
    \* generate_sites.py, parse_facilities (lines 67-96) and main
    gm_text,          \* the text decode_text_streams returned
    gm_pos,           \* the place finditer searches from
    gm_entries,       \* raw_entries
    gm_facilities,    \* facilities
    gm_counts,        \* slug_counts
    gm_outputs,       \* the output steps main has performed, in order
    gm_pc,            \* "find" | "match" | "slug" | an output step | "done"
                      \* | "raised"
    \* scripts/extract_shelters.py, _split_entries, _parse_entry and the
    \* comprehension of extract_shelters
    clean_text,       \* the text _cleanup_text returned
    sh_entries,       \* entries: the list _split_entries returned
    shelters,         \* the list the comprehension of line 128 has built
    sh_pc,            \* "split" | "parse" | "done" | "raised"
    \* scripts/generate_pages.py, extract_facilities
    gp_data,          \* the PDF: its /ToUnicode pairs and its stream matches
    gp_cmap,          \* the mapping extract_to_unicode_map returned
    flate_streams,    \* the inflated /FlateDecode streams (line 90)
    gp_k,             \* the number of stream matches handled
    gp_page,          \* the number of streams of flate_streams[1:] scanned
    gp_entries,       \* the sorted entries of the current stream (line 106)
    gp_idx,           \* the number of entries of it handled
    gp_facilities,    \* the list extract_facilities is building
    gp_pc             \* "cmap" | "streams" | "pages" | "scan" | "done" | "raised"

gs_vars == <<raw_entries, facilities, slug_counts, gs_pc>>

st_vars == <<sections, rows, current, st_i, st_facilities, st_pc>>

hx_vars == <<hex_string, hx_cmap, text, hx_i, hx_pc>>

dts_vars == <<pdf_streams, dts_mapping, decoded_chunks, dts_k, dts_pc>>

cm_vars == <<cm_items, content, mapping, cm_blk, cm_pc>>

ef_vars ==
    <<raw_pdf, cmap, text_blocks, lines, ef_k, ef_pc, ef_error, ef_pending,
      ef_facilities, ef_i, ef_idx, ef_files, ef_run, ef_first>>

xs_vars == <<pdf_bytes, streams, xs_k, xs_cmap, xs_sections, xs_j, xs_pc>>

gm_vars == <<gm_text, gm_pos, gm_entries, gm_facilities, gm_counts, gm_outputs, gm_pc>>

sh_vars == <<clean_text, sh_entries, shelters, sh_pc>>

gp_vars == <<gp_data, gp_cmap, flate_streams, gp_k, gp_page, gp_entries, gp_idx, gp_facilities, gp_pc>>

vars == <<gs_vars, st_vars, hx_vars, dts_vars, cm_vars, ef_vars, xs_vars, gm_vars, sh_vars, gp_vars>>

\* What a step of one script leaves alone: the other scripts' variables.
GS_Frame == UNCHANGED
    <<st_vars, hx_vars, dts_vars, cm_vars, ef_vars, xs_vars, gm_vars,
      sh_vars, gp_vars>>

ST_Frame == UNCHANGED
    <<gs_vars, hx_vars, dts_vars, cm_vars, ef_vars, xs_vars, gm_vars,
      sh_vars, gp_vars>>

HX_Frame == UNCHANGED
    <<gs_vars, st_vars, dts_vars, cm_vars, ef_vars, xs_vars, gm_vars,
      sh_vars, gp_vars>>

DTS_Frame == UNCHANGED
    <<gs_vars, st_vars, hx_vars, cm_vars, ef_vars, xs_vars, gm_vars, sh_vars,
      gp_vars>>

CM_Frame == UNCHANGED
    <<gs_vars, st_vars, hx_vars, dts_vars, ef_vars, xs_vars, gm_vars,
      sh_vars, gp_vars>>

EF_Frame == UNCHANGED
    <<gs_vars, st_vars, hx_vars, dts_vars, cm_vars, xs_vars, gm_vars,
      sh_vars, gp_vars>>

XS_Frame == UNCHANGED
    <<gs_vars, st_vars, hx_vars, dts_vars, cm_vars, ef_vars, gm_vars,
      sh_vars, gp_vars>>

GM_Frame == UNCHANGED
    <<gs_vars, st_vars, hx_vars, dts_vars, cm_vars, ef_vars, xs_vars,
      sh_vars, gp_vars>>

SH_Frame == UNCHANGED
    <<gs_vars, st_vars, hx_vars, dts_vars, cm_vars, ef_vars, xs_vars,
      gm_vars, gp_vars>>

GP_Frame == UNCHANGED
    <<gs_vars, st_vars, hx_vars, dts_vars, cm_vars, ef_vars, xs_vars,
      gm_vars, sh_vars>>

(***************************************************************************)
(* Bounds.                                                                 *)
(***************************************************************************)
\* Largest number of rows the row pattern matches in one text.
MaxEntries == 3

\* Largest number of tokens in the list given to assemble_rows.
MaxSections == 4

\* Largest number of hexadecimal digits in one <...> group.
MaxHexLen == 5

\* Largest number of stream matches in one container.
MaxStreams == 3

\* Largest number of items (range entries and block breaks) in the bfrange
\* part of one character map.
MaxItems == 3

\* Largest number of stream matches in the container of extract_lines.
MaxSegments == 3

\* Largest number of stream matches in the file of extract_streams.
MaxRegions == 3

\* Largest number of pieces the text of parse_facilities is made of.
MaxChunks == 3

\* Largest number of pieces the text of _split_entries is made of.
MaxPieces == 3

\* Largest number of stream matches in the file of generate_pages.py.
MaxPages == 3

(***************************************************************************)
(* Generic helpers.                                                        *)
(***************************************************************************)
\* The decimal digits, as characters.
DigitChar(d) ==
    CASE d = 0 -> "0" [] d = 1 -> "1" [] d = 2 -> "2" [] d = 3 -> "3"
      [] d = 4 -> "4" [] d = 5 -> "5" [] d = 6 -> "6" [] d = 7 -> "7"
      [] d = 8 -> "8" [] d = 9 -> "9"

\* str(n) / f"{n}" of a non-negative integer: its decimal digits.
RECURSIVE IntToStr(_)
IntToStr(n) ==
    IF n < 10 THEN <<DigitChar(n)>>
    ELSE IntToStr(n \div 10) \o <<DigitChar(n % 10)>>

\* The indices of a sequence.
Idx(s) == 1..Len(s)

\* "".join(parts): the concatenation of a list of strings.
RECURSIVE Concat(_)
Concat(parts) ==
    IF parts = <<>> THEN <<>> ELSE Head(parts) \o Concat(Tail(parts))

\* s.startswith(p)
StartsWith(s, p) ==
    Len(s) >= Len(p) /\ SubSeq(s, 1, Len(p)) = p

\* s[n:]: the string without its first n characters.
DropFirst(s, n) ==
    IF n >= Len(s) THEN <<>> ELSE SubSeq(s, n + 1, Len(s))

\* s.find(ch) + 1: the 1-based place of the first ch in s, 0 when absent.
RECURSIVE FindChar(_, _)
FindChar(s, ch) ==
    IF s = <<>> THEN 0
    ELSE IF Head(s) = ch THEN 1
    ELSE LET r == FindChar(Tail(s), ch) IN IF r = 0 THEN 0 ELSE r + 1

\* The decimal digit characters.
IsDigit(ch) == ch \in {"0", "1", "2", "3", "4", "5", "6", "7", "8", "9"}

\* The value of one decimal digit character.
DigitVal(ch) ==
    CASE ch = "0" -> 0 [] ch = "1" -> 1 [] ch = "2" -> 2 [] ch = "3" -> 3
      [] ch = "4" -> 4 [] ch = "5" -> 5 [] ch = "6" -> 6 [] ch = "7" -> 7
      [] ch = "8" -> 8 [] ch = "9" -> 9

\* int(s) of a non-empty string of decimal digits.
RECURSIVE StrToInt(_)
StrToInt(s) ==
    IF Len(s) = 1 THEN DigitVal(s[1])
    ELSE 10 * StrToInt(SubSeq(s, 1, Len(s) - 1)) + DigitVal(s[Len(s)])

\* The length of the longest prefix of s made of decimal digits.
RECURSIVE DigitPrefixLen(_)
DigitPrefixLen(s) ==
    IF s = <<>> \/ ~IsDigit(Head(s)) THEN 0
    ELSE 1 + DigitPrefixLen(Tail(s))

(***************************************************************************)
(* generate_sites.py: parse_facilities.                                    *)
(*                                                                         *)
(* The row pattern (line 72) yields one entry per match; its name group is *)
(* (.+?), any non-empty run of characters.  The slug loop (lines 86-93)    *)
(* reads only entry["name"]; the other five fields are carried unchanged   *)
(* into the Facility.                                                      *)
(***************************************************************************)
\* Characters a name is drawn from: an ASCII letter, a digit, a hyphen.
NameChars == {"a", "2", "-"}

\* The literal "facility" (line 89).
FacilityLit == <<"f", "a", "c", "i", "l", "i", "t", "y">>

\* Lengths of the names drawn character by character.
NameLens == {1, 2}

\* The names the pattern's name group takes in the model: every string over
\* NameChars of a length in NameLens, and the literal "facility" itself.
Names ==
    UNION {[1..n -> NameChars] : n \in NameLens} \cup {FacilityLit}

\* The CJK characters of the alphabet.
CjkChars ==
    {"XIN", "SHI", "QU", "LI", "TAI", "NAN", "HAO", "JIA", "SHAN", "HUA",
     "FEN", "JU"}

\* str.isalnum of one character (line 89): letters (the CJK characters
\* are letters) and digits.
IsAlnum(ch) ==
    ch \in {"a", "c", "f", "i", "l", "t", "y"} \cup CjkChars
        \cup {"0", "1", "2", "3", "4", "5", "6", "7", "8", "9"}

\* line 89: "".join(ch for ch in name if ch.isalnum()) or "facility"
BaseSlug(name) ==
    LET kept == SelectSeq(name, IsAlnum)
    IN  IF kept = <<>> THEN FacilityLit ELSE kept

\* CountUp without the increment of line 91: setdefault only.
CountUp_NoIncrement(counts, base) ==
    IF base \in DOMAIN counts
    THEN counts
    ELSE [b \in DOMAIN counts \cup {base} |->
            IF b = base THEN 1 ELSE counts[b]]

\* lines 90-91: slug_counts.setdefault(base, 0); slug_counts[base] += 1
CountUp(counts, base) ==
    IF base \in DOMAIN counts
    THEN [counts EXCEPT ![base] = @ + 1]
    ELSE [b \in DOMAIN counts \cup {base} |->
            IF b = base THEN 1 ELSE counts[b]]

\* SlugFor with the separator of line 92 left out: f"{base_slug}{count}".
SlugFor_NoDash(base, count) ==
    IF count = 1 THEN base ELSE base \o IntToStr(count)

\* SlugFor with the suffix on the first use too: always f"{base_slug}-{count}".
SlugFor_AlwaysSuffix(base, count) ==
    base \o <<"-">> \o IntToStr(count)

\* line 92: base_slug if count == 1 else f"{base_slug}-{count}"
SlugFor(base, count) ==
    IF count = 1 THEN base ELSE base \o <<"-">> \o IntToStr(count)

GS_Init ==
    /\ raw_entries = <<>>
    /\ facilities = <<>>
    /\ slug_counts = <<>>
    /\ gs_pc = "match"

\* The variables of this script while another script's specification runs.
GS_Off ==
    /\ raw_entries = <<>>
    /\ facilities = <<>>
    /\ slug_counts = <<>>
    /\ gs_pc = "off"

\* lines 74-85: one match of pattern.finditer appends one raw entry.
GS_Match ==
    /\ gs_pc = "match"
    /\ Len(raw_entries) < MaxEntries
    /\ \E name \in Names :
         raw_entries' = Append(raw_entries, [name |-> name])
    /\ UNCHANGED <<facilities, slug_counts, gs_pc>>
    /\ GS_Frame

\* finditer is exhausted: the slug loop starts (lines 86-88).
GS_EndMatch ==
    /\ gs_pc = "match"
    /\ gs_pc' = "slug"
    /\ UNCHANGED <<raw_entries, facilities, slug_counts>>
    /\ GS_Frame

\* lines 88-93: one iteration of the slug loop.
GS_SlugStep ==
    /\ gs_pc = "slug"
    /\ Len(facilities) < Len(raw_entries)
    /\ LET entry == raw_entries[Len(facilities) + 1]
           base_slug == BaseSlug(entry.name)
           counts == CountUp(slug_counts, base_slug)
           slug == SlugFor(base_slug, counts[base_slug])
       IN  /\ slug_counts' = counts
           /\ facilities' = Append(facilities,
                                   [name |-> entry.name, slug |-> slug])
    /\ UNCHANGED <<raw_entries, gs_pc>>
    /\ GS_Frame

\* lines 94-96: an empty list raises ValueError, otherwise the list returns.
GS_Return ==
    /\ gs_pc = "slug"
    /\ Len(facilities) = Len(raw_entries)
    /\ gs_pc' = IF facilities = <<>> THEN "raised" ELSE "done"
    /\ UNCHANGED <<raw_entries, facilities, slug_counts>>
    /\ GS_Frame

GS_Next ==
    \/ GS_Match
    \/ GS_EndMatch
    \/ GS_SlugStep
    \/ GS_Return

(***************************************************************************)
(* scripts/generate_site.py: assemble_rows, slugify, finalize_facilities.  *)
(*                                                                         *)
(* Characters are named by tokens: XIN SHI QU is the district literal,     *)
(* LI the village marker, TAI NAN SHI XIN SHI QU the address prefix, JIA   *)
(* and HAO other CJK characters, FW_A the full-width letter A (U+FF21);    *)
(* "A", "a", "b", "1", "2", "-" and " " are the ASCII characters.          *)
(***************************************************************************)
\* line 98 / line 130: the district literal.
District == <<"XIN", "SHI", "QU">>

\* line 105: the address prefix.
AddressPrefix == <<"TAI", "NAN", "SHI", "XIN", "SHI", "QU">>

\* The tokens a filtered section list is drawn from: a row start with
\* village and an ASCII name, the same with a name that differs only in
\* case and punctuation, one with a CJK-only name, one with a full-width
\* name, a bare ASCII name part, an address, a capacity+division token, a
\* token of digits only.
SampleSections ==
    { District \o <<"JIA", "LI", "A", "b">>,
      District \o <<"JIA", "LI", "a", " ", "b">>,
      District \o <<"JIA", "LI", "JIA">>,
      District \o <<"FW_A">>,
      <<"A", "b">>,
      AddressPrefix \o <<"1", "HAO">>,
      <<"1", "2", "JIA">>,
      <<"0">> }

\* unicodedata.normalize("NFKD", ch) of one character (line 120): the
\* full-width letter decomposes to its ASCII letter, the others are kept.
NFKD(ch) == IF ch = "FW_A" THEN <<"A">> ELSE <<ch>>

\* unicodedata.normalize("NFKD", text) (line 120).
RECURSIVE Normalize(_)
Normalize(s) ==
    IF s = <<>> THEN <<>> ELSE NFKD(Head(s)) \o Normalize(Tail(s))

\* The ASCII characters of the alphabet.
IsAscii(ch) == ch \in {"A", "a", "b", "1", "2", "-", " "}

\* [A-Za-z0-9] (line 122).
IsAsciiAlnum(ch) == ch \in {"A", "a", "b", "1", "2"}

\* normalized.encode("ascii", "ignore").decode("ascii") (line 121).
AsciiOnly(s) == SelectSeq(s, IsAscii)

\* re.sub(r"[^A-Za-z0-9]+", "-", s) (line 122): every maximal run of
\* characters outside [A-Za-z0-9] becomes one hyphen.
RECURSIVE SubNonAlnumRuns(_)
SubNonAlnumRuns(s) ==
    IF s = <<>> THEN <<>>
    ELSE IF IsAsciiAlnum(Head(s)) THEN <<Head(s)>> \o SubNonAlnumRuns(Tail(s))
    ELSE IF Len(s) >= 2 /\ ~IsAsciiAlnum(s[2]) THEN SubNonAlnumRuns(Tail(s))
    ELSE <<"-">> \o SubNonAlnumRuns(Tail(s))

\* s.strip("-") (line 122).
RECURSIVE StripHyphens(_)
StripHyphens(s) ==
    IF s = <<>> THEN <<>>
    ELSE IF Head(s) = "-" THEN StripHyphens(Tail(s))
    ELSE IF s[Len(s)] = "-" THEN StripHyphens(SubSeq(s, 1, Len(s) - 1))
    ELSE s

\* str.lower of one ASCII character (line 122).
LowerChar(ch) == IF ch = "A" THEN "a" ELSE ch

\* s.lower() (line 122).
Lower(s) == [i \in Idx(s) |-> LowerChar(s[i])]

\* lines 119-123: slugify(text, fallback).
slugify(name_text, fallback) ==
    LET normalized == Normalize(name_text)
        ascii_only == AsciiOnly(normalized)
        slug == Lower(StripHyphens(SubNonAlnumRuns(ascii_only)))
    IN  IF slug = <<>> THEN fallback ELSE slug

\* f"{idx:02d}" (line 139): at least two digits, zero-padded.
Pad2(idx) == IF idx < 10 THEN <<"0">> \o IntToStr(idx) ELSE IntToStr(idx)

\* f"facility-{idx:02d}" (line 139).
FallbackSlug(idx) == FacilityLit \o <<"-">> \o Pad2(idx)

\* The value of capacity when the pattern of line 136 does not match: None.
NoCapacity == -1

\* lines 129-150: the Facility built from one row, idx counted from 1.
FinalizeRow(idx, row) ==
    LET name_blob == Concat(row.name_parts)
        remainder == DropFirst(name_blob, Len(District))
        li_at == FindChar(remainder, "LI")
        village == IF li_at > 0 THEN SubSeq(remainder, 1, li_at) ELSE <<>>
        facility_name == DropFirst(remainder, Len(village))
        address == Concat(row.address_parts)
        cap_div == row.capacity_division
        ndigits == DigitPrefixLen(cap_div)
        capacity == IF ndigits > 0
                    THEN StrToInt(SubSeq(cap_div, 1, ndigits))
                    ELSE NoCapacity
        division == IF ndigits > 0 THEN DropFirst(cap_div, ndigits) ELSE <<>>
        slug == slugify(village \o <<"-">> \o facility_name,
                        FallbackSlug(idx))
    IN  [district |-> District, village |-> village, name |-> facility_name,
         address |-> address, capacity |-> capacity, division |-> division,
         slug |-> slug]

\* A row opened with no name part.
NewRow_NoName(item) ==
    [name_parts |-> <<>>, address_parts |-> <<>>,
     capacity_division |-> <<>>]

\* line 101: a new row opened by a token that starts with the district.
NewRow(item) ==
    [name_parts |-> <<item>>, address_parts |-> <<>>,
     capacity_division |-> <<>>]

\* A row update that keeps the first capacity+division token of the row.
AddToRow_KeepFirstCapacity(cur, item) ==
    IF StartsWith(item, AddressPrefix)
    THEN [cur EXCEPT !.address_parts = Append(@, item)]
    ELSE IF IsDigit(item[1])
    THEN IF cur.capacity_division = <<>>
         THEN [cur EXCEPT !.capacity_division = item]
         ELSE cur
    ELSE IF cur.address_parts # <<>> /\ cur.capacity_division = <<>>
    THEN [cur EXCEPT !.address_parts = Append(@, item)]
    ELSE [cur EXCEPT !.name_parts = Append(@, item)]

\* lines 105-113: the open row after a token that does not start with the
\* district: an address-prefixed token joins the address, a digit-leading
\* token becomes the capacity+division, any other token joins the address
\* while the address is open and no capacity was seen, else the name.
AddToRow(cur, item) ==
    IF StartsWith(item, AddressPrefix)
    THEN [cur EXCEPT !.address_parts = Append(@, item)]
    ELSE IF IsDigit(item[1])
    THEN [cur EXCEPT !.capacity_division = item]
    ELSE IF cur.address_parts # <<>> /\ cur.capacity_division = <<>>
    THEN [cur EXCEPT !.address_parts = Append(@, item)]
    ELSE [cur EXCEPT !.name_parts = Append(@, item)]

\* A division name, as a token of its own.
DivisionName == <<"SHAN", "HUA", "FEN", "JU">>

\* The token lists of one row given field by field: the district, a
\* village, a name, an address, the capacity digits and the division name,
\* each a token of its own.
SixTokenRows ==
    { <<District, <<"JIA", "LI">>, name, AddressPrefix \o <<"1", "HAO">>,
        digits, DivisionName>> :
        name \in {<<"A", "b">>, <<"JIA">>}, digits \in {<<"1", "2">>, <<"0">>} }

ST_Init ==
    /\ sections \in
           UNION {[1..n -> SampleSections] : n \in 0..MaxSections}
               \cup SixTokenRows
    /\ rows = <<>>
    /\ current = <<>>
    /\ st_i = 0
    /\ st_facilities = <<>>
    /\ st_pc = "assemble"

\* The variables of this script while another script's specification runs.
ST_Off ==
    /\ sections = <<>>
    /\ rows = <<>>
    /\ current = <<>>
    /\ st_i = 0
    /\ st_facilities = <<>>
    /\ st_pc = "off"

\* lines 97-113: one iteration of the loop of assemble_rows.  The open row
\* is current[1]; capacity_division <<>> stands for None (both are falsy in
\* lines 110 and 135, and no token is empty).
ST_Assemble ==
    /\ st_pc = "assemble"
    /\ st_i < Len(sections)
    /\ LET item == sections[st_i + 1]
       IN  IF StartsWith(item, District)
           THEN /\ rows' = IF current # <<>> THEN Append(rows, current[1])
                           ELSE rows
                /\ current' = <<NewRow(item)>>
           ELSE IF current = <<>>
           THEN UNCHANGED <<rows, current>>
           ELSE /\ rows' = rows
                /\ current' = <<AddToRow(current[1], item)>>
    /\ st_i' = st_i + 1
    /\ UNCHANGED <<sections, st_facilities, st_pc>>
    /\ ST_Frame

\* lines 114-116: the loop is over; the open row is appended and the rows
\* are returned, then handed to finalize_facilities.
ST_AssembleEnd ==
    /\ st_pc = "assemble"
    /\ st_i = Len(sections)
    /\ rows' = IF current # <<>> THEN Append(rows, current[1]) ELSE rows
    /\ current' = <<>>
    /\ st_pc' = "finalize"
    /\ UNCHANGED <<sections, st_i, st_facilities>>
    /\ ST_Frame

\* lines 128-150: one iteration of the loop of finalize_facilities.
ST_Finalize ==
    /\ st_pc = "finalize"
    /\ Len(st_facilities) < Len(rows)
    /\ LET idx == Len(st_facilities) + 1
       IN  st_facilities' = Append(st_facilities, FinalizeRow(idx, rows[idx]))
    /\ UNCHANGED <<sections, rows, current, st_i, st_pc>>
    /\ ST_Frame

\* line 151: finalize_facilities returns.
ST_Return ==
    /\ st_pc = "finalize"
    /\ Len(st_facilities) = Len(rows)
    /\ st_pc' = "done"
    /\ UNCHANGED <<sections, rows, current, st_i, st_facilities>>
    /\ ST_Frame

ST_Next ==
    \/ ST_Assemble
    \/ ST_AssembleEnd
    \/ ST_Finalize
    \/ ST_Return

(***************************************************************************)
(* scripts/extract_facilities.py: decode_hex_string.                       *)
(***************************************************************************)
\* The fallback code point of line 80, U+FFFD.
ReplacementChar == 65533

\* The largest argument chr accepts (line 80), 0x10FFFF.
MaxCodePoint == 1114111

\* The value of one hexadecimal digit character, as int(..., 16) reads it.
HexDigitVal(ch) ==
    CASE ch = "0" -> 0 [] ch = "1" -> 1 [] ch = "2" -> 2 [] ch = "3" -> 3
      [] ch = "4" -> 4 [] ch = "5" -> 5 [] ch = "6" -> 6 [] ch = "7" -> 7
      [] ch = "8" -> 8 [] ch = "9" -> 9 [] ch = "A" -> 10 [] ch = "B" -> 11
      [] ch = "C" -> 12 [] ch = "D" -> 13 [] ch = "E" -> 14 [] ch = "F" -> 15

\* int(s, 16) of a non-empty string of hexadecimal digits.
RECURSIVE HexToInt(_)
HexToInt(s) ==
    IF Len(s) = 1 THEN HexDigitVal(s[1])
    ELSE 16 * HexToInt(SubSeq(s, 1, Len(s) - 1)) + HexDigitVal(s[Len(s)])

\* hex_string[i : i + 4] (line 79), i counted from 0: a slice stops at the
\* end of the string.
Slice4(s, i) ==
    SubSeq(s, i + 1, IF i + 4 <= Len(s) THEN i + 4 ELSE Len(s))

\* cmap.get(code, default) with the code itself as the default.
CmapGet_CodeAsDefault(table, code, default) ==
    IF code \in DOMAIN table THEN table[code] ELSE code

\* cmap.get(code, default) (line 80).
CmapGet(table, code, default) ==
    IF code \in DOMAIN table THEN table[code] ELSE default

\* chr(v) raises ValueError outside 0..0x10FFFF (line 80).
ChrOk(v) == v >= 0 /\ v <= MaxCodePoint

\* The hexadecimal digits the groups of the model are written with.
SampleHexDigits == {"0", "1", "F"}

\* Character maps as load_cmap returns them (values at most 0xFFFF + 0xFFFF):
\* empty, one entry, and entries for one-, two- and four-digit codes.
SampleCmaps ==
    { <<>>,
      (1 :> 20013),
      (1 :> 65 @@ 15 :> 66 @@ 17 :> 67 @@ 4097 :> 131070) }

HX_Init ==
    /\ hex_string \in UNION {[1..n -> SampleHexDigits] : n \in 1..MaxHexLen}
    /\ hx_cmap \in SampleCmaps
    /\ text = <<>>
    /\ hx_i = 0
    /\ hx_pc = "loop"

\* The variables of this function while another specification runs.
HX_Off ==
    /\ hex_string = <<>>
    /\ hx_cmap = <<>>
    /\ text = <<>>
    /\ hx_i = 0
    /\ hx_pc = "off"

\* lines 78-80: one iteration of the loop of decode_hex_string.
HX_Step ==
    /\ hx_pc = "loop"
    /\ hx_i < Len(hex_string)
    /\ LET code == HexToInt(Slice4(hex_string, hx_i))
           v == CmapGet(hx_cmap, code, ReplacementChar)
       IN  IF ChrOk(v)
           THEN /\ text' = Append(text, v)
                /\ hx_i' = hx_i + 4
                /\ hx_pc' = hx_pc
           ELSE /\ hx_pc' = "raised"
                /\ UNCHANGED <<text, hx_i>>
    /\ UNCHANGED <<hex_string, hx_cmap>>
    /\ HX_Frame

\* line 81: the range is exhausted and the text is returned.
HX_Return ==
    /\ hx_pc = "loop"
    /\ hx_i >= Len(hex_string)
    /\ hx_pc' = "done"
    /\ UNCHANGED <<hex_string, hx_cmap, text, hx_i>>
    /\ HX_Frame

HX_Next ==
    \/ HX_Step
    \/ HX_Return

(***************************************************************************)
(* generate_sites.py: decode_text_streams.                                 *)
(*                                                                         *)
(* The container is the list of the matches of stream\r?\n (line 48).  A   *)
(* match is described by what the loop body reads of it: whether an        *)
(* endstream follows (line 50), whether zlib.decompress accepts the bytes  *)
(* (line 55), and the <...> groups of the decompressed data (line 58).     *)
(***************************************************************************)
\* One stream match.
StreamSeg(terminated, deflate_ok, hex_codes) ==
    [terminated |-> terminated, deflate_ok |-> deflate_ok,
     hex_codes |-> hex_codes]

\* The stream matches of the model: a text stream with a mapped and an
\* unmapped 4-digit group, one with a 2-digit mapped group, one with a
\* 6-digit group, one without groups, a corrupt one, an unterminated one.
SampleStreams ==
    { StreamSeg(TRUE, TRUE, << <<"0", "0", "4", "1">>, <<"0", "0", "4", "2">> >>),
      StreamSeg(TRUE, TRUE, << <<"4", "1">> >>),
      StreamSeg(TRUE, TRUE, << <<"1", "1", "0", "0", "0", "0">> >>),
      StreamSeg(TRUE, TRUE, <<>>),
      StreamSeg(TRUE, FALSE, <<>>),
      StreamSeg(FALSE, FALSE, <<>>) }

\* Mappings as extract_to_unicode_mapping returns them (never empty).
SampleMappings ==
    { (65 :> 20013),
      (65 :> 20013 @@ 67 :> 65) }

\* line 62: mapping.get(int(code, 16), int(code, 16)) for each group.
DecodeCodes(to_unicode, hex_codes) ==
    [g \in Idx(hex_codes) |->
        CmapGet(to_unicode, HexToInt(hex_codes[g]), HexToInt(hex_codes[g]))]

\* The stream match reaches line 61: it is terminated, decompresses and
\* holds at least one group.
Contributes(seg) ==
    seg.terminated /\ seg.deflate_ok /\ seg.hex_codes # <<>>

\* Once one match has no endstream after it (line 50), no later match has.
WellFormedStreams(segs) ==
    \A i, j \in Idx(segs) :
        (i < j /\ ~segs[i].terminated) => ~segs[j].terminated

DTS_Init ==
    /\ pdf_streams \in UNION {[1..n -> SampleStreams] : n \in 0..MaxStreams}
    /\ WellFormedStreams(pdf_streams)
    /\ dts_mapping \in SampleMappings
    /\ decoded_chunks = <<>>
    /\ dts_k = 0
    /\ dts_pc = "loop"

\* The variables of this function while another specification runs.
DTS_Off ==
    /\ pdf_streams = <<>>
    /\ dts_mapping = <<>>
    /\ decoded_chunks = <<>>
    /\ dts_k = 0
    /\ dts_pc = "off"

\* lines 48-63: one iteration of the loop over the stream matches.  The
\* three continue statements skip the match; chr (line 62) raises
\* ValueError, which nothing catches, when a value exceeds 0x10FFFF.
DTS_Stream ==
    /\ dts_pc = "loop"
    /\ dts_k < Len(pdf_streams)
    /\ LET seg == pdf_streams[dts_k + 1]
           values == DecodeCodes(dts_mapping, seg.hex_codes)
       IN  IF ~Contributes(seg)
           THEN /\ dts_k' = dts_k + 1
                /\ UNCHANGED <<decoded_chunks, dts_pc>>
           ELSE IF \A g \in Idx(values) : ChrOk(values[g])
           THEN /\ decoded_chunks' = Append(decoded_chunks, values)
                /\ dts_k' = dts_k + 1
                /\ dts_pc' = dts_pc
           ELSE /\ dts_pc' = "raised"
                /\ UNCHANGED <<decoded_chunks, dts_k>>
    /\ UNCHANGED <<pdf_streams, dts_mapping>>
    /\ DTS_Frame

\* line 64: the joined chunks are returned.
DTS_Return ==
    /\ dts_pc = "loop"
    /\ dts_k = Len(pdf_streams)
    /\ dts_pc' = "done"
    /\ UNCHANGED <<pdf_streams, dts_mapping, decoded_chunks, dts_k>>
    /\ DTS_Frame

DTS_Next ==
    \/ DTS_Stream
    \/ DTS_Return

(***************************************************************************)
(* scripts/extract_facilities.py: load_cmap, lines 50-73.                  *)
(*                                                                         *)
(* The text of the character map is the list of the bodies of its          *)
(* beginbfchar...endbfchar blocks and of its beginbfrange...endbfrange     *)
(* blocks, each in text order.  A body is a list of tokens: a <XXXX> group *)
(* of four hexadecimal digits, "[" or "]"; consecutive tokens are          *)
(* separated by white space, as character maps are written.  The regular   *)
(* expressions of lines 54, 59-60, 66 and 68 scan those tokens.            *)
(***************************************************************************)
\* The tokens of a body.
HexTok(digits) == [t |-> "hex", d |-> digits]

OpenTok == [t |-> "[", d |-> <<>>]

CloseTok == [t |-> "]", d |-> <<>>]

IsHexTok(tok) == tok.t = "hex"

\* int(group, 16) of a <XXXX> token (lines 55, 62, 67, 71).
TokVal(tok) == HexToInt(tok.d)

\* re.findall of line 54 over a bfchar body, from token i on: every two
\* consecutive <XXXX> tokens, matches not overlapping.
RECURSIVE ScanPairs(_, _)
ScanPairs(body, i) ==
    IF i + 1 > Len(body) THEN <<>>
    ELSE IF IsHexTok(body[i]) /\ IsHexTok(body[i + 1])
    THEN << <<TokVal(body[i]), TokVal(body[i + 1])>> >>
         \o ScanPairs(body, i + 2)
    ELSE ScanPairs(body, i + 1)

\* re.findall of lines 59-60 over a bfrange body, from token i on: every
\* three consecutive <XXXX> tokens, matches not overlapping.
RECURSIVE ScanTriples(_, _)
ScanTriples(body, i) ==
    IF i + 2 > Len(body) THEN <<>>
    ELSE IF IsHexTok(body[i]) /\ IsHexTok(body[i + 1]) /\ IsHexTok(body[i + 2])
    THEN << <<TokVal(body[i]), TokVal(body[i + 1]), TokVal(body[i + 2])>> >>
         \o ScanTriples(body, i + 3)
    ELSE ScanTriples(body, i + 1)

\* The place of the first "]" at or after token j, 0 when there is none.
RECURSIVE FirstClose(_, _)
FirstClose(body, j) ==
    IF j > Len(body) THEN 0
    ELSE IF body[j] = CloseTok THEN j
    ELSE FirstClose(body, j + 1)

\* line 68: the values of the <XXXX> tokens between two places.
HexValsBetween(body, from, to) ==
    LET inner == SelectSeq(SubSeq(body, from, to), IsHexTok)
    IN  [n \in Idx(inner) |-> TokVal(inner[n])]

\* re.finditer of line 66 over a bfrange body, from token i on: two <XXXX>
\* tokens, "[", then everything up to the first "]".  Each match is
\* <<start, end, entries>>.
RECURSIVE ScanArrays(_, _)
ScanArrays(body, i) ==
    IF i + 3 > Len(body) THEN <<>>
    ELSE IF /\ IsHexTok(body[i])
            /\ IsHexTok(body[i + 1])
            /\ body[i + 2] = OpenTok
            /\ FirstClose(body, i + 3) > 0
    THEN LET j == FirstClose(body, i + 3)
         IN  << <<TokVal(body[i]), TokVal(body[i + 1]),
                  HexValsBetween(body, i + 3, j - 1)>> >>
             \o ScanArrays(body, j + 1)
    ELSE ScanArrays(body, i + 1)

\* for ... in enumerate(range(start, end)): the end code left out.
ApplyTriple_ExclusiveEnd(m, start_int, end_int, base_int) ==
    [c \in DOMAIN m \cup (start_int..(end_int - 1)) |->
        IF c \in start_int..(end_int - 1)
        THEN base_int + (c - start_int) ELSE m[c]]

\* lines 63-64: mapping[code] = base_int + offset for every code of the range.
ApplyTriple(m, start_int, end_int, base_int) ==
    [c \in DOMAIN m \cup (start_int..end_int) |->
        IF c \in start_int..end_int THEN base_int + (c - start_int) ELSE m[c]]

\* The codes an array entry assigns (lines 69-70): those of the range that
\* have an entry in the array.
ArrayCodes(start_int, end_int, entries) ==
    {c \in start_int..end_int : c - start_int < Len(entries)}

\* lines 69-71: mapping[code] = int(entries[offset], 16) while offset is
\* within the array.
ApplyArray(m, start_int, end_int, entries) ==
    [c \in DOMAIN m \cup ArrayCodes(start_int, end_int, entries) |->
        IF c \in ArrayCodes(start_int, end_int, entries)
        THEN entries[c - start_int + 1] ELSE m[c]]

\* line 55, for every pair of a bfchar body in turn.
RECURSIVE ApplyPairs(_, _)
ApplyPairs(m, pairs) ==
    IF pairs = <<>> THEN m
    ELSE ApplyPairs([c \in DOMAIN m \cup {pairs[1][1]} |->
                        IF c = pairs[1][1] THEN pairs[1][2] ELSE m[c]],
                    Tail(pairs))

\* lines 59-64, for every triple of a bfrange body in turn.
RECURSIVE ApplyTriples(_, _)
ApplyTriples(m, triples) ==
    IF triples = <<>> THEN m
    ELSE ApplyTriples(ApplyTriple(m, triples[1][1], triples[1][2],
                                  triples[1][3]),
                      Tail(triples))

\* lines 66-71, for every array match of a bfrange body in turn.
RECURSIVE ApplyArrays(_, _)
ApplyArrays(m, arrays) ==
    IF arrays = <<>> THEN m
    ELSE ApplyArrays(ApplyArray(m, arrays[1][1], arrays[1][2], arrays[1][3]),
                     Tail(arrays))

\* The body of the loop of line 57 with its two inner loops exchanged: the
\* array entries first, then the triples.
BfrangeBlock_ArraysFirst(m, body) ==
    ApplyTriples(ApplyArrays(m, ScanArrays(body, 1)), ScanTriples(body, 1))

\* lines 58-71: the body of the loop of line 57 for one bfrange block: all
\* its triples, then all its array entries.
BfrangeBlock(m, body) ==
    ApplyArrays(ApplyTriples(m, ScanTriples(body, 1)), ScanArrays(body, 1))

\* lines 53-55: the body of the loop of line 52 for one bfchar block.
BfcharBlock(m, body) == ApplyPairs(m, ScanPairs(body, 1))

\* lines 52-55 for a list of bfchar bodies.
RECURSIVE BfcharBlocks(_, _)
BfcharBlocks(m, bodies) ==
    IF bodies = <<>> THEN m
    ELSE BfcharBlocks(BfcharBlock(m, Head(bodies)), Tail(bodies))

\* lines 57-71 for a list of bfrange bodies.
RECURSIVE BfrangeBlocks(_, _)
BfrangeBlocks(m, bodies) ==
    IF bodies = <<>> THEN m
    ELSE BfrangeBlocks(BfrangeBlock(m, Head(bodies)), Tail(bodies))

\* lines 50-73: the mapping load_cmap returns for a character-map text.
ParseCmap(cmap_text) ==
    BfrangeBlocks(BfcharBlocks(<<>>, cmap_text.bfchar), cmap_text.bfrange)

(***************************************************************************)
(* The character maps the model reads: written from a list of entries.     *)
(***************************************************************************)
\* One hexadecimal digit character.
HexChar(v) ==
    CASE v = 0 -> "0" [] v = 1 -> "1" [] v = 2 -> "2" [] v = 3 -> "3"
      [] v = 4 -> "4" [] v = 5 -> "5" [] v = 6 -> "6" [] v = 7 -> "7"
      [] v = 8 -> "8" [] v = 9 -> "9" [] v = 10 -> "A" [] v = 11 -> "B"
      [] v = 12 -> "C" [] v = 13 -> "D" [] v = 14 -> "E" [] v = 15 -> "F"

\* The <XXXX> token of a 16-bit value.
Hex4(n) ==
    HexTok(<<HexChar((n \div 4096) % 16), HexChar((n \div 256) % 16),
             HexChar((n \div 16) % 16), HexChar(n % 16)>>)

\* The entries of a character map.
CharEntry(src, dst) == [kind |-> "char", s |-> src, e |-> src, d |-> <<dst>>]

TripleEntry(start, end, base) ==
    [kind |-> "triple", s |-> start, e |-> end, d |-> <<base>>]

ArrayEntry(start, end, dsts) ==
    [kind |-> "array", s |-> start, e |-> end, d |-> dsts]

\* The end of one bfrange block and the start of the next.
BlockBreak == [kind |-> "break", s |-> 0, e |-> 0, d |-> <<>>]

\* The tokens one entry is written as.
EntryTokens(entry) ==
    CASE entry.kind = "char" -> <<Hex4(entry.s), Hex4(entry.d[1])>>
      [] entry.kind = "triple" ->
            <<Hex4(entry.s), Hex4(entry.e), Hex4(entry.d[1])>>
      [] entry.kind = "array" ->
            <<Hex4(entry.s), Hex4(entry.e), OpenTok>>
            \o [n \in Idx(entry.d) |-> Hex4(entry.d[n])]
            \o <<CloseTok>>

\* The tokens of a list of entries.
RECURSIVE EntriesTokens(_)
EntriesTokens(entries) ==
    IF entries = <<>> THEN <<>>
    ELSE EntryTokens(Head(entries)) \o EntriesTokens(Tail(entries))

\* An item list cut into blocks at its breaks.
RECURSIVE SplitBlocks(_, _)
SplitBlocks(items, acc) ==
    IF items = <<>> THEN <<acc>>
    ELSE IF Head(items) = BlockBreak
    THEN <<acc>> \o SplitBlocks(Tail(items), <<>>)
    ELSE SplitBlocks(Tail(items), Append(acc, Head(items)))

\* The bfrange entries the model's character maps are written from: ranges
\* with a base, ranges with an array of two, three, one and more
\* destinations than codes, overlapping one another in several ways, an
\* empty range, and the block break.
SampleRangeItems ==
    { TripleEntry(1, 2, 65),
      TripleEntry(2, 3, 80),
      TripleEntry(5, 4, 90),
      ArrayEntry(1, 2, <<97, 98>>),
      ArrayEntry(2, 3, <<81, 82>>),
      ArrayEntry(4, 6, <<1, 2, 87>>),
      ArrayEntry(4, 5, <<70>>),
      ArrayEntry(4, 4, <<71, 72>>),
      BlockBreak }

\* The bfchar parts the model's character maps are written from.
SampleCharBlocks ==
    { <<>>,
      << <<CharEntry(1, 100)>> >>,
      << <<CharEntry(3, 101), CharEntry(7, 102)>>, <<CharEntry(7, 103)>> >> }

\* The text written from the bfchar blocks and the bfrange items.
RenderCmap(char_blocks, range_blocks) ==
    [bfchar |-> [k \in Idx(char_blocks) |-> EntriesTokens(char_blocks[k])],
     bfrange |-> [k \in Idx(range_blocks) |-> EntriesTokens(range_blocks[k])]]

\* A character map without any bfrange block, or its items cut into blocks.
RangeBlocksOf(items) ==
    IF items = <<>> THEN <<>> ELSE SplitBlocks(items, <<>>)

CM_Init ==
    /\ \E chars \in SampleCharBlocks :
       \E items \in UNION {[1..n -> SampleRangeItems] : n \in 0..MaxItems} :
          /\ cm_items = [bfchar |-> chars, bfrange |-> RangeBlocksOf(items)]
          /\ content = RenderCmap(chars, RangeBlocksOf(items))
    /\ mapping = <<>>
    /\ cm_blk = 0
    /\ cm_pc = "bfchar"

\* The variables of this function while another specification runs.
CM_Off ==
    /\ cm_items = <<>>
    /\ content = <<>>
    /\ mapping = <<>>
    /\ cm_blk = 0
    /\ cm_pc = "off"

\* lines 52-55: one iteration of the loop over the bfchar blocks.
CM_BfcharBlock ==
    /\ cm_pc = "bfchar"
    /\ cm_blk < Len(content.bfchar)
    /\ mapping' = BfcharBlock(mapping, content.bfchar[cm_blk + 1])
    /\ cm_blk' = cm_blk + 1
    /\ UNCHANGED <<cm_items, content, cm_pc>>
    /\ CM_Frame

\* line 57: the bfchar blocks are exhausted, the loop over the bfrange
\* blocks starts.
CM_BfcharEnd ==
    /\ cm_pc = "bfchar"
    /\ cm_blk = Len(content.bfchar)
    /\ cm_pc' = "bfrange"
    /\ cm_blk' = 0
    /\ UNCHANGED <<cm_items, content, mapping>>
    /\ CM_Frame

\* lines 57-71: one iteration of the loop over the bfrange blocks.
CM_BfrangeBlock ==
    /\ cm_pc = "bfrange"
    /\ cm_blk < Len(content.bfrange)
    /\ mapping' = BfrangeBlock(mapping, content.bfrange[cm_blk + 1])
    /\ cm_blk' = cm_blk + 1
    /\ UNCHANGED <<cm_items, content, cm_pc>>
    /\ CM_Frame

\* line 73: the mapping is returned.
CM_Return ==
    /\ cm_pc = "bfrange"
    /\ cm_blk = Len(content.bfrange)
    /\ cm_pc' = "done"
    /\ UNCHANGED <<cm_items, content, mapping, cm_blk>>
    /\ CM_Frame

CM_Next ==
    \/ CM_BfcharBlock
    \/ CM_BfcharEnd
    \/ CM_BfrangeBlock
    \/ CM_Return

(***************************************************************************)
(* scripts/extract_facilities.py: main (lines 429-431), the location of    *)
(* the character map in load_cmap (lines 43-48), extract_stream_text and   *)
(* extract_lines.                                                          *)
(*                                                                         *)
(* The container is the list of the matches of stream\r?\n (line 95).  A   *)
(* match is described by what the code reads of it: whether an endstream   *)
(* follows (line 97), whether its bytes start with x\x9c (line 85),        *)
(* whether zlib.decompress accepts them (line 86), whether they hold the   *)
(* /CMapName marker of line 43 and then the character-map text, and the    *)
(* [...] TJ arrays (line 88) of the data that is scanned: the decompressed *)
(* data of a segment that starts with x\x9c, the raw bytes of another.     *)
(* Decoded text is a list of code points.                                  *)
(***************************************************************************)
\* A character-map text without any block.
EmptyCmapText == [bfchar |-> <<>>, bfrange |-> <<>>]

\* One stream match.
Segment(terminated, head_x9c, deflate_ok, cmap_marker, cmap_text, arrays) ==
    [terminated |-> terminated, head_x9c |-> head_x9c,
     deflate_ok |-> deflate_ok, cmap_marker |-> cmap_marker,
     cmap_text |-> cmap_text, arrays |-> arrays]

\* The stream matches that hold the marker of line 43.
MarkerSegments(pdf) == {k \in Idx(pdf) : pdf[k].cmap_marker}

\* lines 43-48: the text load_cmap parses.  With the marker, find returns
\* its place and the text is that of the stream around it.  Without it find
\* returns -1, rfind(b"stream", 0, -1) finds the last "stream" of the
\* container (the end of the last endstream, or the last stream keyword)
\* and the text is what follows it, which holds no block; in a container
\* without any "stream" the slice is empty and split(...)[1] raises
\* IndexError.
LocateCmapText(pdf) ==
    IF MarkerSegments(pdf) # {}
    THEN LET k == CHOOSE n \in MarkerSegments(pdf) :
                    \A j \in MarkerSegments(pdf) : n <= j
         IN  [raised |-> FALSE, cmap_text |-> pdf[k].cmap_text]
    ELSE IF pdf # <<>>
    THEN [raised |-> FALSE, cmap_text |-> EmptyCmapText]
    ELSE [raised |-> TRUE, cmap_text |-> EmptyCmapText]

\* lines 76-81: decode_hex_string(hex_string, cmap), from digit i on.
RECURSIVE DecodeHexFrom(_, _, _)
DecodeHexFrom(hex, i, table) ==
    IF i >= Len(hex) THEN <<>>
    ELSE <<CmapGet(table, HexToInt(Slice4(hex, i)), ReplacementChar)>>
         \o DecodeHexFrom(hex, i + 4, table)

\* line 90: "".join(decode_hex_string(part, cmap) for part in parts)
RECURSIVE DecodeParts(_, _)
DecodeParts(parts, table) ==
    IF parts = <<>> THEN <<>>
    ELSE DecodeHexFrom(Head(parts), 0, table)
         \o DecodeParts(Tail(parts), table)

\* line 101: "\n".join(texts)
RECURSIVE JoinLines(_)
JoinLines(texts) ==
    IF texts = <<>> THEN <<>>
    ELSE IF Len(texts) = 1 THEN texts[1]
    ELSE texts[1] \o <<10>> \o JoinLines(Tail(texts))

\* lines 88-90 and 101: the block text of a scanned segment.
BlockText(seg, table) ==
    JoinLines([a \in Idx(seg.arrays) |-> DecodeParts(seg.arrays[a], table)])

\* The code points str.strip removes (str.isspace).
IsSpace(cp) ==
    cp \in {9, 10, 11, 12, 13, 28, 29, 30, 31, 32, 133, 160, 5760, 8232,
            8233, 8239, 8287, 12288} \cup (8192..8202)

\* The code points str.splitlines splits at.
IsLineBreak(cp) == cp \in {10, 11, 12, 13, 28, 29, 30, 133, 8232, 8233}

\* s.strip()
RECURSIVE Strip(_)
Strip(s) ==
    IF s = <<>> THEN <<>>
    ELSE IF IsSpace(Head(s)) THEN Strip(Tail(s))
    ELSE IF IsSpace(s[Len(s)]) THEN Strip(SubSeq(s, 1, Len(s) - 1))
    ELSE s

\* block.splitlines(), from a line begun as acc; empty lines are kept here
\* and dropped by the test of line 105.
RECURSIVE SplitLines(_, _)
SplitLines(s, acc) ==
    IF s = <<>> THEN (IF acc = <<>> THEN <<>> ELSE <<acc>>)
    ELSE IF IsLineBreak(Head(s)) THEN <<acc>> \o SplitLines(Tail(s), <<>>)
    ELSE SplitLines(Tail(s), Append(acc, Head(s)))

\* line 105, for one block: the stripped non-empty lines.
BlockLines(block) ==
    LET parts == SplitLines(block, <<>>)
        kept == SelectSeq(parts, LAMBDA l : Strip(l) # <<>>)
    IN  [n \in Idx(kept) |-> Strip(kept[n])]

\* line 105, for all the blocks.
RECURSIVE AllLines(_)
AllLines(blocks) ==
    IF blocks = <<>> THEN <<>>
    ELSE BlockLines(Head(blocks)) \o AllLines(Tail(blocks))

\* pattern in line (line 109): pat is a substring of s.
Contains(s, pat) ==
    \E i \in 1..(Len(s) - Len(pat) + 1) : SubSeq(s, i, i + Len(pat) - 1) = pat

\* lines 110-118: the seven patterns, as code points.
SkipPatterns ==
    { <<21312, 21029, 37324, 21029, 21517, 31281, 22320, 22336>>,
      <<23481, 37327, 40, 21487, 23481>>,
      <<36676, 31649, 20998, 23616>>,
      <<38450, 31354, 30095, 25955, 36991, 38627, 35373, 26045, 19968,
        35261, 34920>>,
      <<26356, 26032>>,
      <<31532, 49, 38913>>,
      <<31532, 50, 38913>> }

\* A filter that drops only the lines equal to a pattern.
should_skip_ExactMatch(line) == line \in SkipPatterns

\* lines 107-119: should_skip(line)
should_skip(line) == \E pat \in SkipPatterns : Contains(line, pat)

\* lines 105-121: the lines extract_lines returns for its text blocks.
FilterLines(blocks) ==
    SelectSeq(AllLines(blocks), LAMBDA l : ~should_skip(l))

\* The code points of the literals of parse_facilities, _extract_li and
\* slugify.
FenJu == <<20998, 23616>>

TaiNanShi == <<33274, 21335, 24066>>

XinShiQu == <<26032, 24066, 21312>>

LiChar == 37324

FacilityCps == <<102, 97, 99, 105, 108, 105, 116, 121>>

Hyphen == 45

\* [0-9] on code points.
IsDigitCp(cp) == cp >= 48 /\ cp <= 57

\* [a-zA-Z0-9] on code points (line 172).
IsAsciiAlnumCp(cp) ==
    \/ IsDigitCp(cp)
    \/ cp >= 65 /\ cp <= 90
    \/ cp >= 97 /\ cp <= 122

\* The number of leading decimal digits of a line.
RECURSIVE DigitPrefixLenCp(_)
DigitPrefixLenCp(s) ==
    IF s = <<>> \/ ~IsDigitCp(Head(s)) THEN 0
    ELSE 1 + DigitPrefixLenCp(Tail(s))

\* int(s) of a non-empty run of decimal digits.
RECURSIVE CpToInt(_)
CpToInt(s) ==
    IF Len(s) = 1 THEN s[1] - 48
    ELSE 10 * CpToInt(SubSeq(s, 1, Len(s) - 1)) + (s[Len(s)] - 48)

\* line 127 and 130: the number of characters (\d+) takes when
\* (\d+)(.+分局)$ matches the line, 0 when it does not match.  The digit
\* group is greedy but gives characters back so that .+ keeps one: the line
\* ends with the literal, and at least one character stands between the
\* digits and the literal.
CapBranchDigits(line) ==
    LET n == Len(line)
        d == DigitPrefixLenCp(line)
        k == IF d <= n - 3 THEN d ELSE n - 3
    IN  IF n >= 4 /\ SubSeq(line, n - 1, n) = FenJu /\ k >= 1 THEN k ELSE 0

\* A split of the pending lines that tests only the prefix of each line.
RECURSIVE SplitPending_PrefixOnly(_, _, _)
SplitPending_PrefixOnly(pending, name_parts, address_parts) ==
    IF pending = <<>>
    THEN [name_parts |-> name_parts, address_parts |-> address_parts]
    ELSE IF StartsWith(Head(pending), TaiNanShi)
    THEN SplitPending_PrefixOnly(Tail(pending), name_parts,
                                 Append(address_parts, Head(pending)))
    ELSE SplitPending_PrefixOnly(Tail(pending),
                                 Append(name_parts, Head(pending)),
                                 address_parts)

\* lines 133-139: the loop over the pending lines, from the two lists
\* built so far: a line goes to address_parts when it starts with 臺南市
\* or address_parts is not empty, else to name_parts.
RECURSIVE SplitPending(_, _, _)
SplitPending(pending, name_parts, address_parts) ==
    IF pending = <<>>
    THEN [name_parts |-> name_parts, address_parts |-> address_parts]
    ELSE IF StartsWith(Head(pending), TaiNanShi) \/ address_parts # <<>>
    THEN SplitPending(Tail(pending), name_parts,
                      Append(address_parts, Head(pending)))
    ELSE SplitPending(Tail(pending), Append(name_parts, Head(pending)),
                      address_parts)

NameParts(pending) == SplitPending(pending, <<>>, <<>>).name_parts

AddressParts(pending) == SplitPending(pending, <<>>, <<>>).address_parts

\* lines 162-167: _extract_li(name, address): group 1 of the first match of
\* 新市區(\S+里) in the name, else in the address, else None (<<>>).  The
\* match starts at the leftmost place of the literal that a 里 follows
\* after non-space characters only, and \S+ is greedy: it ends before the
\* last such 里.
LiEnds(s, at) ==
    {e \in (at + Len(XinShiQu) + 1)..Len(s) :
        /\ s[e] = LiChar
        /\ \A i \in (at + Len(XinShiQu))..(e - 1) : ~IsSpace(s[i])}

LiStarts(s) ==
    {at \in Idx(s) : /\ at + Len(XinShiQu) - 1 <= Len(s)
                     /\ SubSeq(s, at, at + Len(XinShiQu) - 1) = XinShiQu
                     /\ LiEnds(s, at) # {}}

LiOf(s) ==
    LET at == CHOOSE a \in LiStarts(s) : \A b \in LiStarts(s) : a <= b
        e == CHOOSE x \in LiEnds(s, at) : \A y \in LiEnds(s, at) : y <= x
    IN  SubSeq(s, at + Len(XinShiQu), e)

extract_li(name, address) ==
    IF LiStarts(name) # {} THEN LiOf(name)
    ELSE IF LiStarts(address) # {} THEN LiOf(address)
    ELSE <<>>

\* lines 131-154: the Facility built at a terminal line from the pending
\* lines.  None is <<>>; the slug is set later, by main.
FacilityOf(pending, line) ==
    LET k == CapBranchDigits(line)
        name == Strip(Concat(NameParts(pending)))
        address == Strip(Concat(AddressParts(pending)))
    IN  [name |-> name,
         address |-> address,
         capacity |-> CpToInt(SubSeq(line, 1, k)),
         branch |-> SubSeq(line, k + 1, Len(line)),
         district |-> IF Contains(name, XinShiQu)
                         \/ Contains(address, XinShiQu)
                      THEN XinShiQu ELSE <<>>,
         li |-> extract_li(name, address),
         slug |-> <<>>]

\* line 172: re.sub(r"[^a-zA-Z0-9]+", "-", name)
RECURSIVE SubNonAlnumRunsCp(_)
SubNonAlnumRunsCp(s) ==
    IF s = <<>> THEN <<>>
    ELSE IF IsAsciiAlnumCp(Head(s))
    THEN <<Head(s)>> \o SubNonAlnumRunsCp(Tail(s))
    ELSE IF Len(s) >= 2 /\ ~IsAsciiAlnumCp(s[2])
    THEN SubNonAlnumRunsCp(Tail(s))
    ELSE <<Hyphen>> \o SubNonAlnumRunsCp(Tail(s))

\* line 173: ascii_name.strip("-")
RECURSIVE StripHyphensCp(_)
StripHyphensCp(s) ==
    IF s = <<>> THEN <<>>
    ELSE IF Head(s) = Hyphen THEN StripHyphensCp(Tail(s))
    ELSE IF s[Len(s)] = Hyphen THEN StripHyphensCp(SubSeq(s, 1, Len(s) - 1))
    ELSE s

\* line 174: ascii_name.lower()
LowerCp(s) ==
    [i \in Idx(s) |-> IF s[i] >= 65 /\ s[i] <= 90 THEN s[i] + 32 ELSE s[i]]

\* The decimal digits of n, as code points.
RECURSIVE DigitsCp(_)
DigitsCp(n) ==
    IF n < 10 THEN <<48 + n>>
    ELSE DigitsCp(n \div 10) \o <<48 + (n % 10)>>

\* f"{sequence:03d}" (line 171): at least three digits, zero-padded.
Pad3(n) ==
    IF n < 10 THEN <<48, 48>> \o DigitsCp(n)
    ELSE IF n < 100 THEN <<48>> \o DigitsCp(n)
    ELSE DigitsCp(n)

\* The fallback of slugify with the index left out: always "facility".
SlugFallback_NoSequence(sequence) == FacilityCps

\* line 171: fallback = f"facility-{sequence:03d}"
SlugFallback(sequence) == FacilityCps \o <<Hyphen>> \o Pad3(sequence)

\* lines 170-174: slugify(sequence, name) of scripts/extract_facilities.py.
ef_slugify(sequence, name) ==
    LET ascii_name == StripHyphensCp(SubNonAlnumRunsCp(name))
    IN  IF ascii_name # <<>>
        THEN SlugFallback(sequence) \o <<Hyphen>> \o LowerCp(ascii_name)
        ELSE SlugFallback(sequence)

\* The boilerplate line of the table head (line 111), as glyph codes of
\* the model's character map.
HeaderCodes == <<14, 15, 16, 15, 17, 18, 19, 20>>

\* The character map of the model's containers: codes 1-3 are A, B, C,
\* codes 4-5 the two characters of a skipped pattern, code 6 a space,
\* code 7 the digit 1, codes 8 and 10 the characters of 分局, codes 11-13
\* those of 臺南市, codes 14-20 those of the table head; code 9 is not
\* mapped.
SampleCmapText ==
    RenderCmap(<< <<CharEntry(1, 65), CharEntry(6, 32), CharEntry(7, 49),
                    CharEntry(8, 20998), CharEntry(10, 23616)>>,
                  <<CharEntry(11, 33274), CharEntry(12, 21335),
                    CharEntry(13, 24066), CharEntry(14, 21312),
                    CharEntry(15, 21029), CharEntry(16, 37324),
                    CharEntry(17, 21517), CharEntry(18, 31281),
                    CharEntry(19, 22320), CharEntry(20, 22336)>> >>,
               << <<TripleEntry(2, 3, 66),
                    ArrayEntry(4, 5, <<26356, 26032>>)>> >>)

\* The digits of the <...> part written for a list of glyph codes.
RECURSIVE HexPart(_)
HexPart(codes) ==
    IF codes = <<>> THEN <<>>
    ELSE Hex4(Head(codes)).d \o HexPart(Tail(codes))

\* The stream matches of the model's containers: two compressed text
\* streams, a compressed stream of blank text, a corrupt stream that starts
\* with x\x9c, an image, an uncompressed text stream, an unterminated
\* match, the character-map object, and one whose text has no entry; then
\* three compressed text streams: an address line and a terminal line, a
\* name line with district and village followed by a terminal line, and
\* the table head followed by its two halves as lines of their own; and a
\* compressed text stream with a whole row: a name line, an address line,
\* a line that holds a skipped pattern after another character, a further
\* line and a terminal line.
SampleSegments ==
    { Segment(TRUE, TRUE, TRUE, FALSE, EmptyCmapText,
              << <<HexPart(<<1>>)>>, <<HexPart(<<4, 5>>)>> >>),
      Segment(TRUE, TRUE, TRUE, FALSE, EmptyCmapText,
              << <<HexPart(<<2, 3>>), HexPart(<<9>>)>> >>),
      Segment(TRUE, TRUE, TRUE, FALSE, EmptyCmapText,
              << <<HexPart(<<6>>)>> >>),
      Segment(TRUE, TRUE, FALSE, FALSE, EmptyCmapText, <<>>),
      Segment(TRUE, FALSE, FALSE, FALSE, EmptyCmapText, <<>>),
      Segment(TRUE, FALSE, FALSE, FALSE, EmptyCmapText,
              << <<HexPart(<<3>>)>> >>),
      Segment(FALSE, FALSE, FALSE, FALSE, EmptyCmapText, <<>>),
      Segment(TRUE, FALSE, FALSE, TRUE, SampleCmapText, <<>>),
      Segment(TRUE, FALSE, FALSE, TRUE, EmptyCmapText, <<>>),
      Segment(TRUE, TRUE, TRUE, FALSE, EmptyCmapText,
              << <<HexPart(<<11, 12, 13, 3>>)>>,
                 <<HexPart(<<7, 2, 8, 10>>)>> >>),
      Segment(TRUE, TRUE, TRUE, FALSE, EmptyCmapText,
              << <<HexPart(<<5, 13, 14, 1, 16>>)>>,
                 <<HexPart(<<7, 7, 8, 10>>)>> >>),
      Segment(TRUE, TRUE, TRUE, FALSE, EmptyCmapText,
              << <<HexPart(HeaderCodes)>>,
                 <<HexPart(SubSeq(HeaderCodes, 1, 4))>>,
                 <<HexPart(SubSeq(HeaderCodes, 5, 8))>> >>),
      Segment(TRUE, TRUE, TRUE, FALSE, EmptyCmapText,
              << <<HexPart(<<1>>)>>,
                 <<HexPart(<<11, 12, 13, 3>>)>>,
                 <<HexPart(<<1, 4, 5>>)>>,
                 <<HexPart(<<2>>)>>,
                 <<HexPart(<<7, 2, 8, 10>>)>> >>) }

\* What the script has written before its first run: nothing.
NoFiles == [json |-> <<>>, pages |-> {}]

\* parse_facilities starting from the dataset an earlier run wrote.
InitialFacilities_FromFiles(files) == files.json

\* line 125: facilities = [], whatever an earlier run wrote.
InitialFacilities(files) == <<>>

EF_Init ==
    /\ raw_pdf \in UNION {[1..n -> SampleSegments] : n \in 0..MaxSegments}
    /\ WellFormedStreams(raw_pdf)
    /\ cmap = <<>>
    /\ text_blocks = <<>>
    /\ lines = <<>>
    /\ ef_k = 0
    /\ ef_pc = "load"
    /\ ef_error = "none"
    /\ ef_pending = <<>>
    /\ ef_facilities = <<>>
    /\ ef_i = 0
    /\ ef_idx = 0
    /\ ef_files = NoFiles
    /\ ef_run = 1
    /\ ef_first = <<>>

\* The variables of this script while another specification runs.
EF_Off ==
    /\ raw_pdf = <<>>
    /\ cmap = <<>>
    /\ text_blocks = <<>>
    /\ lines = <<>>
    /\ ef_k = 0
    /\ ef_pc = "off"
    /\ ef_error = "none"
    /\ ef_pending = <<>>
    /\ ef_facilities = <<>>
    /\ ef_i = 0
    /\ ef_idx = 0
    /\ ef_files = NoFiles
    /\ ef_run = 1
    /\ ef_first = <<>>

\* line 430: cmap = load_cmap(raw_pdf).  load_cmap has no check of its own:
\* it returns whatever mapping the located text yields, the empty one
\* included, unless the slicing of line 47 raises.
EF_LoadCmap ==
    /\ ef_pc = "load"
    /\ LET located == LocateCmapText(raw_pdf)
       IN  IF located.raised
           THEN /\ ef_pc' = "raised"
                /\ ef_error' = "IndexError"
                /\ cmap' = cmap
           ELSE /\ cmap' = ParseCmap(located.cmap_text)
                /\ ef_pc' = "lines"
                /\ ef_error' = ef_error
    /\ UNCHANGED <<raw_pdf, text_blocks, lines, ef_k, ef_pending,
                   ef_facilities, ef_i, ef_idx, ef_files, ef_run, ef_first>>
    /\ EF_Frame

\* lines 95-103: one iteration of the loop of extract_lines, with the call
\* of extract_stream_text (lines 84-90).  zlib.decompress (line 86) is not
\* guarded: its error leaves extract_lines and main.  chr (line 80) cannot
\* raise: a value of the mapping is at most FFFF + FFFF.
EF_Segment ==
    /\ ef_pc = "lines"
    /\ ef_k < Len(raw_pdf)
    /\ LET seg == raw_pdf[ef_k + 1]
           block_text == BlockText(seg, cmap)
       IN  IF ~seg.terminated
           THEN /\ ef_k' = ef_k + 1
                /\ UNCHANGED <<text_blocks, ef_pc, ef_error>>
           ELSE IF seg.head_x9c /\ ~seg.deflate_ok
           THEN /\ ef_pc' = "raised"
                /\ ef_error' = "zlib.error"
                /\ UNCHANGED <<text_blocks, ef_k>>
           ELSE /\ text_blocks' = IF Strip(block_text) # <<>>
                                  THEN Append(text_blocks, block_text)
                                  ELSE text_blocks
                /\ ef_k' = ef_k + 1
                /\ UNCHANGED <<ef_pc, ef_error>>
    /\ UNCHANGED <<raw_pdf, cmap, lines, ef_pending, ef_facilities, ef_i,
                   ef_idx, ef_files, ef_run, ef_first>>
    /\ EF_Frame

\* lines 105-121 and line 431: the loop is over; the stripped, filtered
\* lines are returned to main, which calls parse_facilities (line 432,
\* lines 125-127).
EF_LinesReturn ==
    /\ ef_pc = "lines"
    /\ ef_k = Len(raw_pdf)
    /\ lines' = FilterLines(text_blocks)
    /\ ef_pc' = "parse"
    /\ ef_facilities' = InitialFacilities(ef_files)
    /\ ef_pending' = <<>>
    /\ ef_i' = 0
    /\ UNCHANGED <<raw_pdf, cmap, text_blocks, ef_k, ef_error, ef_idx,
                   ef_files, ef_run, ef_first>>
    /\ EF_Frame

\* lines 129-155: one iteration of the loop of parse_facilities.  A line
\* the terminal pattern matches closes a record, built from whatever is
\* pending, and clears pending; any other line is appended to pending.
EF_ParseLine ==
    /\ ef_pc = "parse"
    /\ ef_i < Len(lines)
    /\ LET line == lines[ef_i + 1]
       IN  IF CapBranchDigits(line) > 0
           THEN /\ ef_facilities' =
                       Append(ef_facilities, FacilityOf(ef_pending, line))
                /\ ef_pending' = <<>>
           ELSE /\ ef_pending' = Append(ef_pending, line)
                /\ ef_facilities' = ef_facilities
    /\ ef_i' = ef_i + 1
    /\ UNCHANGED <<raw_pdf, cmap, text_blocks, lines, ef_k, ef_pc, ef_error,
                   ef_idx, ef_files, ef_run, ef_first>>
    /\ EF_Frame

\* line 157 and line 432: parse_facilities returns its list to main.
EF_ParseReturn ==
    /\ ef_pc = "parse"
    /\ ef_i = Len(lines)
    /\ ef_pc' = "slug"
    /\ ef_idx' = 0
    /\ UNCHANGED <<raw_pdf, cmap, text_blocks, lines, ef_k, ef_error,
                   ef_pending, ef_facilities, ef_i, ef_files, ef_run,
                   ef_first>>
    /\ EF_Frame

\* lines 434-435: one iteration of the slug loop of main.
EF_Slug ==
    /\ ef_pc = "slug"
    /\ ef_idx < Len(ef_facilities)
    /\ LET idx == ef_idx + 1
       IN  ef_facilities' =
               [ef_facilities EXCEPT
                   ![idx].slug = ef_slugify(idx, ef_facilities[idx].name)]
    /\ ef_idx' = ef_idx + 1
    /\ UNCHANGED <<raw_pdf, cmap, text_blocks, lines, ef_k, ef_pc, ef_error,
                   ef_pending, ef_i, ef_files, ef_run, ef_first>>
    /\ EF_Frame

\* lines 434 and 437-438: the slug loop is over; write_json writes the
\* dataset and build_docs one page per slug, over what an earlier run
\* wrote.
EF_Write ==
    /\ ef_pc = "slug"
    /\ ef_idx = Len(ef_facilities)
    /\ ef_files' =
           [json |-> ef_facilities,
            pages |-> ef_files.pages \cup
                        {ef_facilities[n].slug : n \in Idx(ef_facilities)}]
    /\ ef_pc' = "done"
    /\ UNCHANGED <<raw_pdf, cmap, text_blocks, lines, ef_k, ef_error,
                   ef_pending, ef_facilities, ef_i, ef_idx, ef_run, ef_first>>
    /\ EF_Frame

\* lines 443-444: the script is run a second time on the same file.  A
\* new process starts with fresh locals; what the first run wrote stays.
EF_RunAgain ==
    /\ ef_pc \in {"done", "raised"}
    /\ ef_run = 1
    /\ ef_run' = 2
    /\ ef_first' = [pc |-> ef_pc, error |-> ef_error,
                    facilities |-> ef_facilities]
    /\ cmap' = <<>>
    /\ text_blocks' = <<>>
    /\ lines' = <<>>
    /\ ef_k' = 0
    /\ ef_pc' = "load"
    /\ ef_error' = "none"
    /\ ef_pending' = <<>>
    /\ ef_facilities' = <<>>
    /\ ef_i' = 0
    /\ ef_idx' = 0
    /\ UNCHANGED <<raw_pdf, ef_files>>
    /\ EF_Frame

EF_Next ==
    \/ EF_LoadCmap
    \/ EF_Segment
    \/ EF_LinesReturn
    \/ EF_ParseLine
    \/ EF_ParseReturn
    \/ EF_Slug
    \/ EF_Write
    \/ EF_RunAgain

(***************************************************************************)
(* scripts/generate_site.py: extract_streams, build_cmap, decode_sections  *)
(* and the head of extract_facilities (lines 154-162).                     *)
(*                                                                         *)
(* A match of stream\r?\n is described by whether an endstream follows     *)
(* it, whether zlib.decompress accepts its bytes, and the data that        *)
(* extract_streams can append for it: the decompressed bytes when zlib     *)
(* accepts the region, the raw bytes otherwise.  Of the data the model     *)
(* keeps what build_cmap and decode_sections read: whether it holds        *)
(* beginbfchar, the <src> <dst> pairs of line 51, whether it holds both TJ *)
(* and Tf, and the four-digit codes of each [<...>] group of line 61.      *)
(***************************************************************************)
\* The data of one stream.
StreamData(bfchar, pairs, tj_tf, arrays) ==
    [bfchar |-> bfchar, pairs |-> pairs, tj_tf |-> tj_tf, arrays |-> arrays]

\* One match of line 33.
Region(terminated, deflate_ok, data) ==
    [terminated |-> terminated, deflate_ok |-> deflate_ok, data |-> data]

\* Data in which neither function finds anything (an image, a font file).
OpaqueData == StreamData(FALSE, <<>>, FALSE, <<>>)

\* line 52: the dict comprehension over the pairs; a later pair of the
\* same source replaces an earlier one.
RECURSIVE PairsToDict(_, _)
PairsToDict(pairs, acc) ==
    IF pairs = <<>> THEN acc
    ELSE LET src == Head(pairs)[1]
             dst == Head(pairs)[2]
         IN  PairsToDict(Tail(pairs),
                 [c \in DOMAIN acc \cup {src} |->
                     IF c = src THEN dst ELSE acc[c]])

\* lines 48-54: build_cmap(streams): the pairs of the first stream that
\* holds beginbfchar and at least one pair, the empty dict without one.
RECURSIVE build_cmap(_)
build_cmap(ss) ==
    IF ss = <<>> THEN <<>>
    ELSE IF Head(ss).bfchar /\ Head(ss).pairs # <<>>
    THEN PairsToDict(Head(ss).pairs, <<>>)
    ELSE build_cmap(Tail(ss))

\* line 62: the code points of one group: the codes outside the mapping
\* are dropped.
DecodeGroup(codes, table) ==
    LET known == SelectSeq(codes, LAMBDA c : c \in DOMAIN table)
    IN  [n \in Idx(known) |-> table[known[n]]]

\* lines 60-65: decode_sections(stream, cmap): the non-empty decoded groups.
RECURSIVE DecodeGroups(_, _)
DecodeGroups(arrays, table) ==
    IF arrays = <<>> THEN <<>>
    ELSE LET decoded == DecodeGroup(Head(arrays), table)
             rest == DecodeGroups(Tail(arrays), table)
         IN  IF decoded # <<>> THEN <<decoded>> \o rest ELSE rest

decode_sections(stream, table) == DecodeGroups(stream.arrays, table)

\* line 62: chr raises ValueError for a mapped value above 0x10FFFF.
DecodeRaises(stream, table) ==
    \E a \in Idx(stream.arrays) :
        \E n \in Idx(stream.arrays[a]) :
            /\ stream.arrays[a][n] \in DOMAIN table
            /\ ~ChrOk(table[stream.arrays[a][n]])

\* The matches of the model's files: a compressed content stream, a
\* compressed character map, a compressed character map without a pair, an
\* uncompressed character map, an uncompressed content stream, a region of
\* other bytes that zlib rejects, a compressed stream of other data, and a
\* match without endstream.
SampleRegions ==
    { Region(TRUE, TRUE, StreamData(FALSE, <<>>, TRUE, << <<1, 2>>, <<9>> >>)),
      Region(TRUE, TRUE,
             StreamData(TRUE, << <<1, 65>>, <<2, 66>>, <<1, 67>> >>,
                        FALSE, <<>>)),
      Region(TRUE, TRUE, StreamData(TRUE, <<>>, FALSE, <<>>)),
      Region(TRUE, FALSE,
             StreamData(TRUE, << <<2, 97>>, <<3, 1114112>> >>, FALSE, <<>>)),
      Region(TRUE, FALSE, StreamData(FALSE, <<>>, TRUE, << <<2>>, <<3>> >>)),
      Region(TRUE, FALSE, OpaqueData),
      Region(TRUE, TRUE, OpaqueData),
      Region(FALSE, FALSE, OpaqueData) }

XS_Init ==
    /\ pdf_bytes \in UNION {[1..n -> SampleRegions] : n \in 0..MaxRegions}
    /\ WellFormedStreams(pdf_bytes)
    /\ streams = <<>>
    /\ xs_k = 0
    /\ xs_cmap = <<>>
    /\ xs_sections = <<>>
    /\ xs_j = 0
    /\ xs_pc = "streams"

\* The variables of this script while another specification runs.
XS_Off ==
    /\ pdf_bytes = <<>>
    /\ streams = <<>>
    /\ xs_k = 0
    /\ xs_cmap = <<>>
    /\ xs_sections = <<>>
    /\ xs_j = 0
    /\ xs_pc = "off"

\* lines 33-42: one iteration of the loop of extract_streams.  A match
\* without endstream is passed over; for the others the decompressed bytes
\* are appended, and when zlib.decompress raises, the raw bytes.
XS_Stream ==
    /\ xs_pc = "streams"
    /\ xs_k < Len(pdf_bytes)
    /\ LET region == pdf_bytes[xs_k + 1]
       IN  streams' = IF region.terminated
                      THEN Append(streams, region.data)
                      ELSE streams
    /\ xs_k' = xs_k + 1
    /\ UNCHANGED <<pdf_bytes, xs_cmap, xs_sections, xs_j, xs_pc>>
    /\ XS_Frame

\* line 43 and lines 156-158: extract_streams returns; build_cmap runs on
\* the list and an empty mapping raises RuntimeError.
XS_BuildCmap ==
    /\ xs_pc = "streams"
    /\ xs_k = Len(pdf_bytes)
    /\ xs_cmap' = build_cmap(streams)
    /\ xs_pc' = IF build_cmap(streams) = <<>> THEN "raised" ELSE "decode"
    /\ UNCHANGED <<pdf_bytes, streams, xs_k, xs_sections, xs_j>>
    /\ XS_Frame

\* lines 161-162: one iteration of the loop over the streams.
XS_Decode ==
    /\ xs_pc = "decode"
    /\ xs_j < Len(streams)
    /\ LET stream == streams[xs_j + 1]
       IN  IF ~stream.tj_tf
           THEN /\ xs_j' = xs_j + 1
                /\ UNCHANGED <<xs_sections, xs_pc>>
           ELSE IF DecodeRaises(stream, xs_cmap)
           THEN /\ xs_pc' = "raised"
                /\ UNCHANGED <<xs_sections, xs_j>>
           ELSE /\ xs_sections' =
                       xs_sections \o decode_sections(stream, xs_cmap)
                /\ xs_j' = xs_j + 1
                /\ xs_pc' = xs_pc
    /\ UNCHANGED <<pdf_bytes, streams, xs_k, xs_cmap>>
    /\ XS_Frame

\* line 164: the loop is over; the sections go to clean_sections.
XS_DecodeEnd ==
    /\ xs_pc = "decode"
    /\ xs_j = Len(streams)
    /\ xs_pc' = "clean"
    /\ UNCHANGED <<pdf_bytes, streams, xs_k, xs_cmap, xs_sections, xs_j>>
    /\ XS_Frame

XS_Next ==
    \/ XS_Stream
    \/ XS_BuildCmap
    \/ XS_Decode
    \/ XS_DecodeEnd

(***************************************************************************)
(* generate_sites.py: parse_facilities on a text, and main (lines          *)
(* 327-336).                                                               *)
(*                                                                         *)
(* The text is a sequence of characters; the row pattern of line 72 is     *)
(* matched on it as re does: the leftmost start, a greedy village group, a *)
(* lazy name group, a lazy address group, a greedy digit group.  NL is the *)
(* line feed, which the dot of the pattern does not match; SHAN HUA FEN JU *)
(* is the branch literal.                                                  *)
(***************************************************************************)
\* line 72: the branch literal.
Branch == <<"SHAN", "HUA", "FEN", "JU">>

\* line 72: the dot matches every character but the line feed.
DotOk(ch) == ch # "NL"

\* Every character of txt[a..b] is matched by the dot.
AllDots(txt, a, b) == \A i \in a..b : DotOk(txt[i])

\* The literal lit stands at place p of txt.
LitAt(txt, p, lit) ==
    /\ p >= 1
    /\ p + Len(lit) - 1 <= Len(txt)
    /\ SubSeq(txt, p, p + Len(lit) - 1) = lit

\* The address group with its literal head left out: (.+?號).
AddressHeadAt_AnyPlace(txt, p) ==
    p >= 1 /\ p + Len(AddressPrefix) - 1 <= Len(txt)

\* line 72: the literal head of the address group stands at place p.
AddressHeadAt(txt, p) == LitAt(txt, p, AddressPrefix)

\* \d+ at place p: the length of the digit run that starts there.
DigitRunLen(txt, p) ==
    IF p > Len(txt) THEN 0 ELSE DigitPrefixLen(SubSeq(txt, p, Len(txt)))

\* The ways the pattern matches with its first character at place s: k is
\* the number of characters the dots of the village group take, p the
\* place of the address group, h the place of its closing HAO.
MatchesAt(txt, s) ==
    IF ~LitAt(txt, s, District) THEN {}
    ELSE LET v == s + Len(District)
             n == Len(txt)
             Ks == {k \in 2..4 : /\ v + k <= n
                                 /\ AllDots(txt, v, v + k - 1)
                                 /\ txt[v + k] = "LI"}
             Ps(k) == {p \in (v + k + 2)..n :
                          /\ AddressHeadAt(txt, p)
                          /\ AllDots(txt, v + k + 1, p - 1)}
             Hs(p) == {h \in (p + Len(AddressPrefix) + 1)..n :
                          /\ txt[h] = "HAO"
                          /\ AllDots(txt, p + Len(AddressPrefix), h - 1)
                          /\ DigitRunLen(txt, h + 1) >= 1
                          /\ LitAt(txt, h + 1 + DigitRunLen(txt, h + 1),
                                   Branch)}
         IN  UNION { UNION { { [k |-> k, p |-> p, h |-> h] : h \in Hs(p) } :
                             p \in Ps(k) } : k \in Ks }

\* The order in which re tries them: the greedy village group longest
\* first, then the lazy name and address groups shortest first.
TriedBefore(c, d) ==
    \/ c.k > d.k
    \/ c.k = d.k /\ c.p < d.p
    \/ c.k = d.k /\ c.p = d.p /\ c.h <= d.h

\* lines 74-84: the entry of the match re reports at place s.
EntryAt_(txt, s) ==
    LET ways == MatchesAt(txt, s)
        c == CHOOSE m \in ways : \A d \in ways : TriedBefore(m, d)
        v == s + Len(District)
        n == DigitRunLen(txt, c.h + 1)
    IN  [district |-> SubSeq(txt, s, v - 1),
         li |-> SubSeq(txt, v, v + c.k),
         name |-> SubSeq(txt, v + c.k + 1, c.p - 1),
         address |-> SubSeq(txt, c.p, c.h),
         capacity |-> StrToInt(SubSeq(txt, c.h + 1, c.h + n)),
         branch |-> SubSeq(txt, c.h + 1 + n, c.h + n + Len(Branch)),
         last |-> c.h + n + Len(Branch)]

\* The places from pos on where the pattern matches.
MatchStarts(txt, pos) == {s \in pos..Len(txt) : MatchesAt(txt, s) # {}}

\* line 73: the next match of finditer from place pos.
NextMatch(txt, pos) ==
    LET starts == MatchStarts(txt, pos)
        s == CHOOSE m \in starts : \A d \in starts : m <= d
    IN  EntryAt_(txt, s)

\* line 68: text.find of the district literal, 0 when absent.
FindDistrict(txt) ==
    LET places == {s \in Idx(txt) : LitAt(txt, s, District)}
    IN  IF places = {} THEN 0
        ELSE CHOOSE s \in places : \A d \in places : s <= d

\* The pieces the texts of the model are put together from.
RowText(li, name, address, digits) ==
    District \o li \o name \o address \o digits \o Branch

\* A row, a row of capacity 0 whose name has no letter or digit, a row
\* without capacity digits, a row whose address lacks the literal head, a
\* line of other text, a row whose village is too short, a row whose
\* address holds HAO twice, and an address followed by the tail of a row
\* (the district literal is part of the address literal).
SampleChunks ==
    { RowText(<<"JIA", "JIA", "LI">>, <<"a">>,
              AddressPrefix \o <<"1", "HAO">>, <<"1", "2">>),
      RowText(<<"JIA", "JIA", "LI">>, <<"-">>,
              AddressPrefix \o <<"1", "HAO">>, <<"0">>),
      RowText(<<"JIA", "JIA", "LI">>, <<"a">>,
              AddressPrefix \o <<"1", "HAO">>, <<>>),
      RowText(<<"JIA", "JIA", "LI">>, <<"a">>,
              <<"NAN", "1", "HAO">>, <<"5">>),
      <<"JIA", "NL">>,
      RowText(<<"JIA", "LI">>, <<"a">>,
              AddressPrefix \o <<"1", "HAO">>, <<"7">>),
      RowText(<<"JIA", "JIA", "LI">>, <<"2">>,
              AddressPrefix \o <<"1", "HAO", "a", "HAO">>, <<"3">>),
      AddressPrefix \o <<"JIA", "JIA", "LI", "a">>
          \o AddressPrefix \o <<"2", "HAO", "4">> \o Branch }

\* main, lines 332-335, in order.
OutputSteps ==
    <<"write_json", "write_index_page", "write_facility_pages",
      "write_styles">>

\* The step that follows an output step, "done" after the last.
StepAfter(step) ==
    LET n == CHOOSE i \in Idx(OutputSteps) : OutputSteps[i] = step
    IN  IF n = Len(OutputSteps) THEN "done" ELSE OutputSteps[n + 1]

\* parse_facilities without the test of lines 94-95.
ParseOutcome_NoCheck(facs) == OutputSteps[1]

\* lines 94-96 and main line 331: an empty list raises ValueError, which
\* main does not catch; otherwise main goes on to its first output step.
ParseOutcome(facs) == IF facs = <<>> THEN "raised" ELSE OutputSteps[1]

GM_Init ==
    /\ gm_text \in {Concat(cs) :
                      cs \in UNION {[1..n -> SampleChunks] : n \in 0..MaxChunks}}
    /\ gm_pos = 0
    /\ gm_entries = <<>>
    /\ gm_facilities = <<>>
    /\ gm_counts = <<>>
    /\ gm_outputs = <<>>
    /\ gm_pc = "find"

\* The variables of this script while another specification runs.
GM_Off ==
    /\ gm_text = <<>>
    /\ gm_pos = 0
    /\ gm_entries = <<>>
    /\ gm_facilities = <<>>
    /\ gm_counts = <<>>
    /\ gm_outputs = <<>>
    /\ gm_pc = "off"

\* lines 68-71: the district literal is looked for; without it ValueError
\* is raised, with it the search of the pattern starts at its place.
GM_Find ==
    /\ gm_pc = "find"
    /\ IF FindDistrict(gm_text) = 0
       THEN /\ gm_pc' = "raised"
            /\ gm_pos' = gm_pos
       ELSE /\ gm_pc' = "match"
            /\ gm_pos' = FindDistrict(gm_text)
    /\ UNCHANGED <<gm_text, gm_entries, gm_facilities, gm_counts, gm_outputs>>
    /\ GM_Frame

\* lines 73-84: one iteration of the loop over the matches.
GM_Match ==
    /\ gm_pc = "match"
    /\ MatchStarts(gm_text, gm_pos) # {}
    /\ LET m == NextMatch(gm_text, gm_pos)
       IN  /\ gm_entries' = Append(gm_entries,
                 [district |-> m.district, li |-> m.li, name |-> m.name,
                  address |-> m.address, capacity |-> m.capacity,
                  branch |-> m.branch])
           /\ gm_pos' = m.last + 1
    /\ UNCHANGED <<gm_text, gm_facilities, gm_counts, gm_outputs, gm_pc>>
    /\ GM_Frame

\* lines 73 and 85-87: no further match; the slug loop starts.
GM_EndMatch ==
    /\ gm_pc = "match"
    /\ MatchStarts(gm_text, gm_pos) = {}
    /\ gm_pc' = "slug"
    /\ UNCHANGED <<gm_text, gm_pos, gm_entries, gm_facilities, gm_counts,
                   gm_outputs>>
    /\ GM_Frame

\* lines 88-93: one iteration of the slug loop.
GM_SlugStep ==
    /\ gm_pc = "slug"
    /\ Len(gm_facilities) < Len(gm_entries)
    /\ LET entry == gm_entries[Len(gm_facilities) + 1]
           base_slug == BaseSlug(entry.name)
           counts == CountUp(gm_counts, base_slug)
           slug == SlugFor(base_slug, counts[base_slug])
       IN  /\ gm_counts' = counts
           /\ gm_facilities' = Append(gm_facilities,
                 [district |-> entry.district, li |-> entry.li,
                  name |-> entry.name, address |-> entry.address,
                  capacity |-> entry.capacity, branch |-> entry.branch,
                  slug |-> slug])
    /\ UNCHANGED <<gm_text, gm_pos, gm_entries, gm_outputs, gm_pc>>
    /\ GM_Frame

\* lines 94-96 and main line 331: parse_facilities raises or returns.
GM_Return ==
    /\ gm_pc = "slug"
    /\ Len(gm_facilities) = Len(gm_entries)
    /\ gm_pc' = ParseOutcome(gm_facilities)
    /\ UNCHANGED <<gm_text, gm_pos, gm_entries, gm_facilities, gm_counts,
                   gm_outputs>>
    /\ GM_Frame

\* main lines 332-335: one output step.
GM_Output ==
    /\ \E i \in Idx(OutputSteps) : gm_pc = OutputSteps[i]
    /\ gm_outputs' = Append(gm_outputs, gm_pc)
    /\ gm_pc' = StepAfter(gm_pc)
    /\ UNCHANGED <<gm_text, gm_pos, gm_entries, gm_facilities, gm_counts>>
    /\ GM_Frame

GM_Next ==
    \/ GM_Find
    \/ GM_Match
    \/ GM_EndMatch
    \/ GM_SlugStep
    \/ GM_Return
    \/ GM_Output

(***************************************************************************)
(* scripts/extract_shelters.py: _split_entries, _parse_entry and the list  *)
(* comprehension of extract_shelters (lines 127-128).                      *)
(*                                                                         *)
(* The text is a sequence of characters, named as in the other scripts:    *)
(* XIN SHI QU is the district literal, SHAN HUA FEN JU the branch literal, *)
(* LI the village marker, TAI NAN SHI the head of an address.              *)
(***************************************************************************)
\* line 68: the separator, the branch literal followed by the district.
EntrySeparator == <<"SHAN", "HUA", "FEN", "JU", "XIN", "SHI", "QU">>

\* lines 85 and 117: the branch literal.
ShelterBranch == <<"SHAN", "HUA", "FEN", "JU">>

\* line 104: the head of an address.
ShelterAddressHead == <<"TAI", "NAN", "SHI">>

\* line 68: clean_text.split(separator), the chunk begun as acc.
RECURSIVE SplitOn(_, _, _)
SplitOn(s, sep, acc) ==
    IF s = <<>> THEN <<acc>>
    ELSE IF StartsWith(s, sep)
    THEN <<acc>> \o SplitOn(DropFirst(s, Len(sep)), sep, <<>>)
    ELSE SplitOn(Tail(s), sep, Append(acc, Head(s)))

\* chunk.strip() (line 71): the only white space of the alphabet is " ".
RECURSIVE StripSpaces(_)
StripSpaces(s) ==
    IF s = <<>> THEN <<>>
    ELSE IF Head(s) = " " THEN StripSpaces(Tail(s))
    ELSE IF s[Len(s)] = " " THEN StripSpaces(SubSeq(s, 1, Len(s) - 1))
    ELSE s

\* An entry that is not given back the branch the split removed.
EntryOfChunk_NoBranch(chunks, index) ==
    LET chunk == StripSpaces(chunks[index])
    IN  IF chunk = <<>> THEN <<>>
        ELSE IF StartsWith(chunk, District) THEN <<chunk>>
        ELSE <<District \o chunk>>

\* lines 71-82: the entry made of chunk number index of chunks, <<>> when
\* the chunk is skipped.
EntryOfChunk(chunks, index) ==
    LET chunk == StripSpaces(chunks[index])
        closed == IF index < Len(chunks) THEN chunk \o ShelterBranch
                  ELSE chunk
    IN  IF chunk = <<>> THEN <<>>
        ELSE IF StartsWith(closed, District) THEN <<closed>>
        ELSE <<District \o closed>>

\* lines 67-82: _split_entries(clean_text)
split_entries(txt) ==
    LET chunks == SplitOn(txt, EntrySeparator, <<>>)
    IN  Concat([n \in Idx(chunks) |-> EntryOfChunk(chunks, n)])

\* s.endswith(p)
EndsWith(s, p) ==
    Len(s) >= Len(p) /\ SubSeq(s, Len(s) - Len(p) + 1, Len(s)) = p

\* The length of the run of decimal digits s ends with.
RECURSIVE DigitSuffixLen(_)
DigitSuffixLen(s) ==
    IF s = <<>> \/ ~IsDigit(s[Len(s)]) THEN 0
    ELSE 1 + DigitSuffixLen(SubSeq(s, 1, Len(s) - 1))

\* line 85: re.search(r"(\d+)(善化分局)?$", entry): the entry without the
\* branch literal it may end with, and the digits that text ends with.
CapacityTail(entry) ==
    IF EndsWith(entry, ShelterBranch)
    THEN SubSeq(entry, 1, Len(entry) - Len(ShelterBranch))
    ELSE entry

\* lines 84-118: _parse_entry(entry): the record, or the ValueError of
\* lines 87, 93 or 98.
parse_entry(entry) ==
    LET body == CapacityTail(entry)
        d == DigitSuffixLen(body)
        prefix == SubSeq(body, 1, Len(body) - d)
        remainder == DropFirst(prefix, Len(District))
        li_at == FindChar(remainder, "LI")
        details == DropFirst(remainder, li_at)
        address_at ==
            IF \E p \in Idx(details) :
                   StartsWith(DropFirst(details, p - 1), ShelterAddressHead)
            THEN CHOOSE p \in Idx(details) :
                   /\ StartsWith(DropFirst(details, p - 1), ShelterAddressHead)
                   /\ \A q \in 1..(p - 1) :
                        ~StartsWith(DropFirst(details, q - 1),
                                    ShelterAddressHead)
            ELSE 0
    IN  IF d = 0 \/ ~StartsWith(prefix, District) \/ li_at < 2
        THEN [raised |-> TRUE, record |-> <<>>]
        ELSE [raised |-> FALSE,
              record |->
                [district |-> District,
                 village |-> SubSeq(remainder, 1, li_at),
                 name |-> IF address_at = 0 THEN details
                          ELSE SubSeq(details, 1, address_at - 1),
                 address |-> IF address_at = 0 THEN <<>>
                             ELSE DropFirst(details, address_at - 1),
                 capacity |-> StrToInt(SubSeq(body, Len(body) - d + 1,
                                              Len(body))),
                 branch |-> ShelterBranch]]

\* The pieces the texts of the model are put together from: a full row, a
\* row without address, a row without village marker, a row without
\* capacity digits, a last row without district and branch, white space,
\* a row whose body starts with the district, a row with an empty body, a
\* row whose body has white space at both ends.
ShelterChunks ==
    { District \o <<"JIA", "LI", "a", "TAI", "NAN", "SHI", "1", "HAO",
                    "1", "2">> \o ShelterBranch,
      District \o <<"JIA", "LI", "a", "5">> \o ShelterBranch,
      District \o <<"JIA", "a", "TAI", "NAN", "SHI", "1", "HAO", "7">>
          \o ShelterBranch,
      District \o <<"JIA", "LI", "a", "TAI", "NAN", "SHI", "1", "HAO">>
          \o ShelterBranch,
      <<"JIA", "LI", "a", "3">>,
      <<" ">>,
      District \o District \o <<"a", "4">> \o ShelterBranch,
      District \o ShelterBranch,
      District \o <<" ", "a", "6", " ">> \o ShelterBranch }

SH_Init ==
    /\ clean_text \in
           {StripSpaces(Concat(cs)) :
              cs \in UNION {[1..n -> ShelterChunks] : n \in 0..MaxPieces}}
    /\ sh_entries = <<>>
    /\ shelters = <<>>
    /\ sh_pc = "split"

\* The variables of this script while another specification runs.
SH_Off ==
    /\ clean_text = <<>>
    /\ sh_entries = <<>>
    /\ shelters = <<>>
    /\ sh_pc = "off"

\* line 127: entries = _split_entries(clean_text)
SH_Split ==
    /\ sh_pc = "split"
    /\ sh_entries' = split_entries(clean_text)
    /\ sh_pc' = "parse"
    /\ UNCHANGED <<clean_text, shelters>>
    /\ SH_Frame

\* line 128: one element of the list comprehension.  The ValueError of
\* _parse_entry is not caught: it ends the comprehension and
\* extract_shelters.
SH_Parse ==
    /\ sh_pc = "parse"
    /\ Len(shelters) < Len(sh_entries)
    /\ LET parsed == parse_entry(sh_entries[Len(shelters) + 1])
       IN  IF parsed.raised
           THEN /\ sh_pc' = "raised"
                /\ shelters' = shelters
           ELSE /\ shelters' = Append(shelters, parsed.record)
                /\ sh_pc' = sh_pc
    /\ UNCHANGED <<clean_text, sh_entries>>
    /\ SH_Frame

\* line 128: the comprehension is over; the list is returned.
SH_Return ==
    /\ sh_pc = "parse"
    /\ Len(shelters) = Len(sh_entries)
    /\ sh_pc' = "done"
    /\ UNCHANGED <<clean_text, sh_entries, shelters>>
    /\ SH_Frame

SH_Next ==
    \/ SH_Split
    \/ SH_Parse
    \/ SH_Return

(***************************************************************************)
(* scripts/generate_pages.py: extract_to_unicode_map, decode_text_operand, *)
(* iter_text_entries and extract_facilities.                               *)
(*                                                                         *)
(* The PDF is the list of the <XXXX> <XXXX> pairs of its /ToUnicode object *)
(* (or the fact that the object cannot be found) and the list of the       *)
(* matches of stream\r?\n, in file order.  A match carries: whether an     *)
(* endstream follows, whether the dictionary before it names /FlateDecode, *)
(* whether zlib inflates it, and the operators of the inflated content in  *)
(* emission order: a Tm with its vertical position, or a text-showing      *)
(* operator with its operand.  An operand is an array of parts, one        *)
(* <...> string or one (...) string; a hexadecimal part is the list of     *)
(* the codes of its four-digit groups, a literal part its characters.      *)
(* Characters are one-element tokens as in scripts/generate_site.py.       *)
(***************************************************************************)
\* A Tm operator (line 78-80): the last of its six numbers.
TmOp(y) == [op |-> "Tm", y |-> y, kind |-> "none", parts |-> <<>>]

\* A text-showing operator (TJ or Tj) with its operand.
TextOp(kind, parts) == [op |-> "text", y |-> 0, kind |-> kind, parts |-> parts]

\* The parts of an operand.
HexPartOf(codes) == [hex |-> TRUE, v |-> codes]

LitPartOf(chars) == [hex |-> FALSE, v |-> chars]

\* A text-showing operator whose operand is an array of one <...> part.
ShowCodes(codes) == TextOp("array", <<HexPartOf(codes)>>)

\* A stream match of the file.
PageRegion(terminated, flate, deflate_ok, ops) ==
    [terminated |-> terminated, flate |-> flate, deflate_ok |-> deflate_ok,
     ops |-> ops]

\* lines 27-43: extract_to_unicode_map builds the mapping from the pairs
\* of the object in text order: a later pair of a code replaces an earlier.
RECURSIVE extract_to_unicode_map(_, _)
extract_to_unicode_map(pairs, acc) ==
    IF pairs = <<>> THEN acc
    ELSE extract_to_unicode_map(
             Tail(pairs),
             [c \in DOMAIN acc \cup {pairs[1][1]} |->
                 IF c = pairs[1][1] THEN pairs[1][2] ELSE acc[c]])

\* lines 46-51: decode_hex_string: one character per code, "?" for a code
\* the mapping does not have.
decode_hex_string(codes, table) ==
    [i \in Idx(codes) |->
        IF codes[i] \in DOMAIN table THEN table[codes[i]] ELSE "?"]

\* lines 57-64: the decoded parts of an array operand, joined.
RECURSIVE DecodeOperandParts(_, _)
DecodeOperandParts(parts, table) ==
    IF parts = <<>> THEN <<>>
    ELSE (IF Head(parts).hex THEN decode_hex_string(Head(parts).v, table)
          ELSE Head(parts).v)
         \o DecodeOperandParts(Tail(parts), table)

\* What follows the operand in the text group of line 74, which takes in
\* the operator: a space and Tj, as the model's files write it.
OperatorTail == <<" ", "T", "j">>

\* lines 65-66: a <...> operand.  raw still ends with the operator, so
\* strip(b"<>") removes the opening bracket only, and the four-character
\* group of decode_hex_string that holds ">" is no hexadecimal number:
\* int (line 49) raises ValueError.
OperandRaises(operand) == operand.kind = "hex"

\* lines 54-69: decode_text_operand, for an operand that does not raise.
\* An array is decoded part by part (lines 57-64).  For a (...) operand,
\* strip(b"()") removes the opening parenthesis only (lines 67-68): the
\* closing one and the operator stay in the text.
decode_text_operand(operand, table) ==
    CASE operand.kind = "array" -> DecodeOperandParts(operand.parts, table)
      [] operand.kind = "lit" ->
            operand.parts[1].v \o <<")">> \o OperatorTail

\* lines 77-85: iter_text_entries over the operators from the first of
\* ops on; has_y is FALSE while current_y is None.  A Tm sets current_y; a
\* text operator met before any Tm is skipped undecoded, any other yields
\* the pair of current_y and its decoded text.
RECURSIVE iter_text_entries(_, _, _, _)
iter_text_entries(ops, table, has_y, current_y) ==
    IF ops = <<>> THEN <<>>
    ELSE IF Head(ops).op = "Tm"
    THEN iter_text_entries(Tail(ops), table, TRUE, Head(ops).y)
    ELSE IF ~has_y
    THEN iter_text_entries(Tail(ops), table, has_y, current_y)
    ELSE << <<current_y, decode_text_operand(Head(ops), table)>> >>
         \o iter_text_entries(Tail(ops), table, has_y, current_y)

\* lines 77-85: iter_text_entries raises while sorted consumes it: some
\* text operator met after a Tm has an operand that raises.
RECURSIVE IterRaises(_, _)
IterRaises(ops, has_y) ==
    IF ops = <<>> THEN FALSE
    ELSE IF Head(ops).op = "Tm" THEN IterRaises(Tail(ops), TRUE)
    ELSE (has_y /\ OperandRaises(Head(ops))) \/ IterRaises(Tail(ops), has_y)

\* sorted(..., key=lambda item: -item[0]) (line 106): the place of one
\* more entry in a list already sorted.  The sort is stable: the entry
\* goes after the entries whose position is not lower than its own.
RECURSIVE InsertByY(_, _)
InsertByY(sorted, entry) ==
    IF sorted = <<>> THEN <<entry>>
    ELSE IF Head(sorted)[1] >= entry[1]
    THEN <<Head(sorted)>> \o InsertByY(Tail(sorted), entry)
    ELSE <<entry>> \o sorted

\* line 106: the entries sorted by decreasing vertical position.
RECURSIVE SortByY(_, _)
SortByY(unsorted, acc) ==
    IF unsorted = <<>> THEN acc
    ELSE SortByY(Tail(unsorted), InsertByY(acc, Head(unsorted)))

\* line 106: the sorted entries of one inflated stream whose operands do
\* not raise.
SortedEntries(stream, table) ==
    SortByY(iter_text_entries(stream, table, FALSE, 0), <<>>)

\* line 113: text.replace("善化分局", ""): every occurrence removed, from
\* the left, occurrences not overlapping.
RECURSIVE RemoveBranch(_)
RemoveBranch(s) ==
    IF s = <<>> THEN <<>>
    ELSE IF StartsWith(s, Branch) THEN RemoveBranch(DropFirst(s, Len(Branch)))
    ELSE <<Head(s)>> \o RemoveBranch(Tail(s))

\* line 108: the entry at place idx (counted from 0) closes a record: its
\* text holds the branch literal, two entries stand before it and one
\* after it.
ClosesRecord(sorted, idx) ==
    /\ Contains(sorted[idx + 1][2], Branch)
    /\ idx >= 2
    /\ idx + 1 < Len(sorted)

\* line 120: int(capacity_value) raises ValueError unless the text is a
\* run of decimal digits (the alphabet has no sign, space or underscore).
CapacityRaises(capacity_value) ==
    \/ capacity_value = <<>>
    \/ \E i \in Idx(capacity_value) : ~IsDigit(capacity_value[i])

\* lines 110-124: the Facility of the entry at place idx (counted from 0),
\* count records being in the list already.
PageFacility(sorted, idx, page_index, count) ==
    [name |-> sorted[idx][2],
     address |-> sorted[idx - 1][2],
     locality |-> sorted[idx + 2][2],
     capacity |-> StrToInt(RemoveBranch(sorted[idx + 1][2])),
     precinct |-> Branch,
     page |-> page_index,
     slug |-> FacilityLit \o <<"-">> \o Pad2(count + 1)]

\* The pairs of the /ToUnicode object of the model's files: codes 1-9 are
\* a, b, 1, 2, the four characters of the branch literal and the head of
\* an address; code 10 has no pair.
SamplePairs ==
    << <<1, "a">>, <<2, "b">>, <<3, "1">>, <<4, "2">>, <<5, "SHAN">>,
       <<6, "HUA">>, <<7, "FEN">>, <<8, "JU">>, <<9, "TAI">> >>

\* The /ToUnicode object of a file: absent, or its pairs.
SampleToUnicode ==
    { [found |-> FALSE, pairs |-> <<>>],
      [found |-> TRUE, pairs |-> SamplePairs] }

\* The texts of two table rows, as codes: address, name, capacity with
\* branch, locality.
RowOne == <<ShowCodes(<<9, 1>>), ShowCodes(<<1>>),
            ShowCodes(<<3, 5, 6, 7, 8>>), ShowCodes(<<2>>)>>

RowTwo == <<ShowCodes(<<9, 2>>), ShowCodes(<<1, 1>>),
            ShowCodes(<<4, 5, 6, 7, 8>>), ShowCodes(<<2, 2>>)>>

\* The stream matches of the model's files: a page with one row; a page
\* whose two rows are emitted bottom-up; a page whose second capacity
\* follows the first row at once; a page with a text before any Tm and a
\* capacity without digits; an image (no /FlateDecode); a corrupt
\* /FlateDecode stream; an unterminated match; an inflated stream without
\* text; a page whose capacity has no two entries before it; a page with
\* an array that holds an unmapped code and with a (...) operand; a page
\* with a <...> operand before and after its first Tm.
SamplePageRegions ==
    { PageRegion(TRUE, TRUE, TRUE, <<TmOp(2)>> \o RowOne),
      PageRegion(TRUE, TRUE, TRUE,
                 <<TmOp(1)>> \o RowOne \o <<TmOp(2)>> \o RowTwo),
      PageRegion(TRUE, TRUE, TRUE,
                 <<TmOp(2)>> \o RowOne
                     \o <<ShowCodes(<<4, 5, 6, 7, 8>>), ShowCodes(<<2, 2>>)>>),
      PageRegion(TRUE, TRUE, TRUE,
                 <<ShowCodes(<<1>>), TmOp(1), ShowCodes(<<9, 1>>),
                   ShowCodes(<<1>>), ShowCodes(<<5, 6, 7, 8>>),
                   ShowCodes(<<2>>)>>),
      PageRegion(TRUE, FALSE, FALSE, <<>>),
      PageRegion(TRUE, TRUE, FALSE, <<>>),
      PageRegion(FALSE, TRUE, FALSE, <<>>),
      PageRegion(TRUE, TRUE, TRUE, <<>>),
      PageRegion(TRUE, TRUE, TRUE,
                 <<TmOp(1), ShowCodes(<<1>>), ShowCodes(<<3, 5, 6, 7, 8>>),
                   ShowCodes(<<2>>)>>),
      PageRegion(TRUE, TRUE, TRUE,
                 <<TmOp(1), ShowCodes(<<9, 10>>),
                   TextOp("lit", <<LitPartOf(<<"a">>)>>),
                   ShowCodes(<<3, 5, 6, 7, 8>>), ShowCodes(<<2>>)>>),
      PageRegion(TRUE, TRUE, TRUE,
                 <<TextOp("hex", <<HexPartOf(<<1>>)>>), TmOp(1),
                   TextOp("hex", <<HexPartOf(<<9, 1>>)>>)>>) }

GP_Init ==
    /\ gp_data \in
           {[tounicode |-> u, regions |-> rs] :
               u \in SampleToUnicode,
               rs \in UNION {[1..n -> SamplePageRegions] : n \in 0..MaxPages}}
    /\ gp_cmap = <<>>
    /\ flate_streams = <<>>
    /\ gp_k = 0
    /\ gp_page = 0
    /\ gp_entries = <<>>
    /\ gp_idx = 0
    /\ gp_facilities = <<>>
    /\ gp_pc = "cmap"

\* The variables of this script while another specification runs.
GP_Off ==
    /\ gp_data = <<>>
    /\ gp_cmap = <<>>
    /\ flate_streams = <<>>
    /\ gp_k = 0
    /\ gp_page = 0
    /\ gp_entries = <<>>
    /\ gp_idx = 0
    /\ gp_facilities = <<>>
    /\ gp_pc = "off"

\* line 89: cmap = extract_to_unicode_map(data).  The ValueError of lines
\* 30 and 35 is not caught.
GP_Cmap ==
    /\ gp_pc = "cmap"
    /\ IF gp_data.tounicode.found
       THEN /\ gp_cmap' = extract_to_unicode_map(gp_data.tounicode.pairs, <<>>)
            /\ gp_pc' = "streams"
       ELSE /\ gp_cmap' = gp_cmap
            /\ gp_pc' = "raised"
    /\ UNCHANGED <<gp_data, flate_streams, gp_k, gp_page, gp_entries, gp_idx,
                   gp_facilities>>
    /\ GP_Frame

\* lines 91-103: one iteration of the loop over the stream matches: a
\* match without endstream, without /FlateDecode or that zlib cannot
\* inflate is skipped; any other is appended to flate_streams.
GP_Stream ==
    /\ gp_pc = "streams"
    /\ gp_k < Len(gp_data.regions)
    /\ LET region == gp_data.regions[gp_k + 1]
       IN  flate_streams' =
               IF region.terminated /\ region.flate /\ region.deflate_ok
               THEN Append(flate_streams, region.ops)
               ELSE flate_streams
    /\ gp_k' = gp_k + 1
    /\ UNCHANGED <<gp_data, gp_cmap, gp_page, gp_entries, gp_idx,
                   gp_facilities, gp_pc>>
    /\ GP_Frame

\* line 91: the loop over the stream matches is over.
GP_StreamsEnd ==
    /\ gp_pc = "streams"
    /\ gp_k = Len(gp_data.regions)
    /\ gp_pc' = "pages"
    /\ UNCHANGED <<gp_data, gp_cmap, flate_streams, gp_k, gp_page,
                   gp_entries, gp_idx, gp_facilities>>
    /\ GP_Frame

\* lines 105-106: the next stream of flate_streams[1:] is taken and its
\* entries are sorted.  The first inflated stream is never taken.  The
\* ValueError of a <...> operand is not caught.
GP_Sort ==
    /\ gp_pc = "pages"
    /\ gp_page + 1 < Len(flate_streams)
    /\ IF IterRaises(flate_streams[gp_page + 2], FALSE)
       THEN /\ gp_pc' = "raised"
            /\ UNCHANGED <<gp_entries, gp_idx, gp_page>>
       ELSE /\ gp_entries' =
                   SortedEntries(flate_streams[gp_page + 2], gp_cmap)
            /\ gp_idx' = 0
            /\ gp_page' = gp_page + 1
            /\ gp_pc' = "scan"
    /\ UNCHANGED <<gp_data, gp_cmap, flate_streams, gp_k, gp_facilities>>
    /\ GP_Frame

\* lines 107-125: one iteration of the loop over the sorted entries.  The
\* ValueError of int (line 120) is not caught.
GP_Entry ==
    /\ gp_pc = "scan"
    /\ gp_idx < Len(gp_entries)
    /\ IF ~ClosesRecord(gp_entries, gp_idx)
       THEN /\ gp_idx' = gp_idx + 1
            /\ UNCHANGED <<gp_facilities, gp_pc>>
       ELSE IF CapacityRaises(RemoveBranch(gp_entries[gp_idx + 1][2]))
       THEN /\ gp_pc' = "raised"
            /\ UNCHANGED <<gp_facilities, gp_idx>>
       ELSE /\ gp_facilities' =
                   Append(gp_facilities,
                          PageFacility(gp_entries, gp_idx, gp_page,
                                       Len(gp_facilities)))
            /\ gp_idx' = gp_idx + 1
            /\ gp_pc' = gp_pc
    /\ UNCHANGED <<gp_data, gp_cmap, flate_streams, gp_k, gp_page,
                   gp_entries>>
    /\ GP_Frame

\* line 107: the entries of the stream are exhausted.
GP_PageEnd ==
    /\ gp_pc = "scan"
    /\ gp_idx = Len(gp_entries)
    /\ gp_pc' = "pages"
    /\ UNCHANGED <<gp_data, gp_cmap, flate_streams, gp_k, gp_page,
                   gp_entries, gp_idx, gp_facilities>>
    /\ GP_Frame

\* line 126: extract_facilities returns its list.
GP_Return ==
    /\ gp_pc = "pages"
    /\ gp_page + 1 >= Len(flate_streams)
    /\ gp_pc' = "done"
    /\ UNCHANGED <<gp_data, gp_cmap, flate_streams, gp_k, gp_page,
                   gp_entries, gp_idx, gp_facilities>>
    /\ GP_Frame

GP_Next ==
    \/ GP_Cmap
    \/ GP_Stream
    \/ GP_StreamsEnd
    \/ GP_Sort
    \/ GP_Entry
    \/ GP_PageEnd
    \/ GP_Return

(***************************************************************************)
(* Specifications: one per script; the other scripts' variables are idle.  *)
(***************************************************************************)
InitGS == GS_Init /\ ST_Off /\ HX_Off /\ DTS_Off /\ CM_Off /\ EF_Off /\ XS_Off
    /\ GM_Off /\ SH_Off /\ GP_Off

NextGS == GS_Next

SpecGS == InitGS /\ [][NextGS]_vars

InitST == ST_Init /\ GS_Off /\ HX_Off /\ DTS_Off /\ CM_Off /\ EF_Off /\ XS_Off
    /\ GM_Off /\ SH_Off /\ GP_Off

NextST == ST_Next

SpecST == InitST /\ [][NextST]_vars

InitHX == HX_Init /\ GS_Off /\ ST_Off /\ DTS_Off /\ CM_Off /\ EF_Off /\ XS_Off
    /\ GM_Off /\ SH_Off /\ GP_Off

NextHX == HX_Next

SpecHX == InitHX /\ [][NextHX]_vars

InitDTS == DTS_Init /\ GS_Off /\ ST_Off /\ HX_Off /\ CM_Off /\ EF_Off /\ XS_Off
    /\ GM_Off /\ SH_Off /\ GP_Off

NextDTS == DTS_Next

SpecDTS == InitDTS /\ [][NextDTS]_vars

InitCM == CM_Init /\ GS_Off /\ ST_Off /\ HX_Off /\ DTS_Off /\ EF_Off /\ XS_Off
    /\ GM_Off /\ SH_Off /\ GP_Off

NextCM == CM_Next

SpecCM == InitCM /\ [][NextCM]_vars

InitEF == EF_Init /\ GS_Off /\ ST_Off /\ HX_Off /\ DTS_Off /\ CM_Off /\ XS_Off
    /\ GM_Off /\ SH_Off /\ GP_Off

NextEF == EF_Next

SpecEF == InitEF /\ [][NextEF]_vars

InitXS == XS_Init /\ GS_Off /\ ST_Off /\ HX_Off /\ DTS_Off /\ CM_Off /\ EF_Off
    /\ GM_Off /\ SH_Off /\ GP_Off

NextXS == XS_Next

SpecXS == InitXS /\ [][NextXS]_vars

InitGM == GM_Init /\ GS_Off /\ ST_Off /\ HX_Off /\ DTS_Off /\ CM_Off /\ EF_Off
    /\ XS_Off /\ SH_Off /\ GP_Off

NextGM == GM_Next

SpecGM == InitGM /\ [][NextGM]_vars

InitSH == SH_Init /\ GS_Off /\ ST_Off /\ HX_Off /\ DTS_Off /\ CM_Off /\ EF_Off
    /\ XS_Off /\ GM_Off /\ GP_Off

NextSH == SH_Next

SpecSH == InitSH /\ [][NextSH]_vars

InitGP == GP_Init /\ GS_Off /\ ST_Off /\ HX_Off /\ DTS_Off /\ CM_Off /\ EF_Off
    /\ XS_Off /\ GM_Off /\ SH_Off

NextGP == GP_Next

SpecGP == InitGP /\ [][NextGP]_vars

(***************************************************************************)
(* Claims about generate_sites.parse_facilities (checked under SpecGS).    *)
(***************************************************************************)
\* The name has no alphanumeric character: it normalizes to "".
NormalizesToEmpty(name) == SelectSeq(name, IsAlnum) = <<>>

\* How many of the first j entries have the base slug of entry j.
RankInBase(j) ==
    Cardinality({i \in 1..j :
        BaseSlug(raw_entries[i].name) = BaseSlug(raw_entries[j].name)})

\* Entries i < j are the first two entries whose base slug is "facility",
\* and both names normalize to the empty string.
FirstTwoEmptyNames(i, j) ==
    /\ i < j
    /\ NormalizesToEmpty(raw_entries[i].name)
    /\ NormalizesToEmpty(raw_entries[j].name)
    /\ \A m \in 1..j :
         (m # i /\ m # j) => BaseSlug(raw_entries[m].name) # FacilityLit

\* C1: the slugs of the list parse_facilities returns are pairwise distinct,
\* whatever the names are (repeated names, names that differ only in
\* non-alphanumeric characters, names with no alphanumeric character).
C1_SlugsPairwiseDistinct ==
    gs_pc = "done" =>
        \A i, j \in Idx(facilities) :
            i # j => facilities[i].slug # facilities[j].slug

\* C1 witness: a returned list of three records in which two different names
\* share a base slug and one name has no alphanumeric character.
C1_Witness ==
    /\ gs_pc = "done"
    /\ Len(facilities) = 3
    /\ \E i, j \in Idx(facilities) :
         /\ i # j
         /\ facilities[i].name # facilities[j].name
         /\ BaseSlug(facilities[i].name) = BaseSlug(facilities[j].name)
    /\ \E k \in Idx(facilities) : NormalizesToEmpty(facilities[k].name)

\* C3: the k-th entry with a given base slug (k >= 2) gets the suffix -k
\* exactly, and the first one gets the bare base, so a later entry always
\* carries a strictly higher numeric suffix than every earlier one.
C3_KthEntryGetsSuffixK ==
    gs_pc = "done" =>
        \A j \in Idx(facilities) :
            LET base == BaseSlug(raw_entries[j].name)
                k == RankInBase(j)
            IN  /\ k = 1 => facilities[j].slug = base
                /\ k >= 2 =>
                     facilities[j].slug = base \o <<"-">> \o IntToStr(k)

\* C3 witness: three returned records that all share one base slug.
C3_Witness ==
    /\ gs_pc = "done"
    /\ Len(facilities) = 3
    /\ RankInBase(3) = 3

C2_SiteSlugsPairwiseDistinct ==
    st_pc = "done" =>
        \A i, j \in Idx(st_facilities) :
            i # j => st_facilities[i].slug # st_facilities[j].slug

(***************************************************************************)
(* Claims about scripts/extract_facilities.py decode_hex_string (SpecHX).  *)
(***************************************************************************)
\* The number of complete 4-digit groups of the hexadecimal string.
FullGroups == Len(hex_string) \div 4

\* The glyph code of the g-th complete 4-digit group, digit by digit.
FullGroupCode(g) ==
    LET at == 4 * (g - 1)
    IN  4096 * HexDigitVal(hex_string[at + 1])
        + 256 * HexDigitVal(hex_string[at + 2])
        + 16 * HexDigitVal(hex_string[at + 3])
        + HexDigitVal(hex_string[at + 4])

\* C5: decode_hex_string is total over non-empty hexadecimal strings and the
\* character maps load_cmap builds: no exception is raised, one character is
\* produced per group, each 4-digit group whose code is a key of cmap
\* decodes to the mapped value and each absent one to U+FFFD.
C5_DecodeHexStringTotal ==
    /\ hx_pc # "raised"
    /\ hx_pc = "done" =>
         /\ Len(text) = (Len(hex_string) + 3) \div 4
         /\ \A g \in 1..FullGroups :
              text[g] = IF FullGroupCode(g) \in DOMAIN hx_cmap
                        THEN hx_cmap[FullGroupCode(g)]
                        ELSE 65533

\* C5 witness: a returned text of two groups, the first a 4-digit group
\* whose code is mapped, the second a shorter group whose code is absent.
C5_Witness ==
    /\ hx_pc = "done"
    /\ Len(hex_string) = 5
    /\ FullGroupCode(1) \in DOMAIN hx_cmap
    /\ HexDigitVal(hex_string[5]) \notin DOMAIN hx_cmap
    /\ text = <<hx_cmap[FullGroupCode(1)], 65533>>

\* A second C5 witness: a 4-digit group whose code is absent from the map.
C5_WitnessAbsent ==
    /\ hx_pc = "done"
    /\ Len(hex_string) = 4
    /\ hx_cmap # <<>>
    /\ FullGroupCode(1) \notin DOMAIN hx_cmap

(***************************************************************************)
(* Claims about generate_sites.py decode_text_streams (SpecDTS).           *)
(***************************************************************************)
\* The stream matches handled so far that produced a chunk, in order: the
\* n-th of them produced decoded_chunks[n].
ChunkSources ==
    SelectSeq(SubSeq(pdf_streams, 1, dts_k), Contributes)

\* C6: every hexadecimal group whose glyph code is not a key of the mapping
\* decodes to a fixed placeholder (U+FFFD or "?"), and decoding never
\* raises, for any group length and any mapping.
C6_UnmappedDecodesToPlaceholder ==
    /\ dts_pc # "raised"
    /\ \A n \in Idx(decoded_chunks) :
         \A g \in Idx(ChunkSources[n].hex_codes) :
            HexToInt(ChunkSources[n].hex_codes[g]) \notin DOMAIN dts_mapping
                => decoded_chunks[n][g] \in {65533, 63}

(***************************************************************************)
(* Claims about scripts/extract_facilities.py load_cmap (SpecCM).          *)
(***************************************************************************)
\* The places <<k, n>> of the entries written into the bfrange blocks.
RangePlaces ==
    {<<k, n>> \in (1..MaxItems) \X (1..MaxItems) :
        k <= Len(cm_items.bfrange) /\ n <= Len(cm_items.bfrange[k])}

\* The entry written at a place.
EntryAt(p) == cm_items.bfrange[p[1]][p[2]]

\* The triples the scan of lines 59-60 finds in bfrange block k.
ScannedTriples(k) == ScanTriples(content.bfrange[k], 1)

\* How many scanned triples, over all bfrange blocks, have c in their range.
TripleCoverCount(c) ==
    Cardinality({<<k, n>> \in (1..(MaxItems + 1)) \X (1..(2 * MaxItems)) :
        /\ k <= Len(content.bfrange)
        /\ n <= Len(ScannedTriples(k))
        /\ c \in ScannedTriples(k)[n][1]..ScannedTriples(k)[n][2]})

\* Some array entry has c in its range.
ArrayCovers(c) ==
    \E p \in RangePlaces :
        EntryAt(p).kind = "array" /\ c \in EntryAt(p).s..EntryAt(p).e

\* Code c is covered by the triple it belongs to and by no other range entry.
CoveredOnce(c) == TripleCoverCount(c) = 1 /\ ~ArrayCovers(c)

ListedCodes(entry) ==
    {c \in entry.s..entry.e : c - entry.s < Len(entry.d)}

\* A later array entry of the same block lists a destination for c.
LaterArrayInBlock(p, c) ==
    \E q \in RangePlaces :
        /\ q[1] = p[1]
        /\ q[2] > p[2]
        /\ EntryAt(q).kind = "array"
        /\ c \in ListedCodes(EntryAt(q))

\* A bfrange block after block k, already processed, assigns c.
LaterBlockAssigns(k, c) ==
    \/ \E q \in RangePlaces :
         /\ q[1] > k
         /\ q[1] <= cm_blk
         /\ EntryAt(q).kind = "array"
         /\ c \in ListedCodes(EntryAt(q))
    \/ \E k2 \in (k + 1)..cm_blk :
         \E n \in Idx(ScannedTriples(k2)) :
            c \in ScannedTriples(k2)[n][1]..ScannedTriples(k2)[n][2]

\* The loop over the bfrange blocks has processed cm_blk blocks.
InRangeLoop == cm_pc \in {"bfrange", "done"}

\* C8 as stated: for an array entry (start, end, [d0, d1, ...]) the mapping
\* sends start + i to d_i for every i within [start, end] and within the
\* array, and this is the value of those codes after the whole bfrange
\* block has been processed.
C8_Original ==
    (InRangeLoop /\ cm_blk >= 1) =>
        \A p \in RangePlaces :
            (p[1] = cm_blk /\ EntryAt(p).kind = "array") =>
                \A c \in ListedCodes(EntryAt(p)) :
                    /\ c \in DOMAIN mapping
                    /\ mapping[c] = EntryAt(p).d[c - EntryAt(p).s + 1]

\* C8 amended: the same, provided no later array entry of the same block
\* lists a destination for that code; the value stays until a later bfrange
\* block assigns the code.
C8_ArrayEntriesFinalInBlock ==
    InRangeLoop =>
        \A p \in RangePlaces :
            (p[1] <= cm_blk /\ EntryAt(p).kind = "array") =>
                \A c \in ListedCodes(EntryAt(p)) :
                    (~LaterArrayInBlock(p, c) /\ ~LaterBlockAssigns(p[1], c))
                        => /\ c \in DOMAIN mapping
                           /\ mapping[c] = EntryAt(p).d[c - EntryAt(p).s + 1]

\* C8 witness: a processed block in which an array entry is followed by a
\* triple whose range holds one of the array's codes, and the mapping has
\* the array's destination for that code.
C8_Witness ==
    /\ cm_pc = "done"
    /\ \E p, q \in RangePlaces :
         /\ p[1] = q[1]
         /\ p[2] < q[2]
         /\ EntryAt(p).kind = "array"
         /\ EntryAt(q).kind = "triple"
         /\ \E c \in ListedCodes(EntryAt(p)) :
              /\ c \in EntryAt(q).s..EntryAt(q).e
              /\ ~LaterArrayInBlock(p, c)
              /\ ~LaterBlockAssigns(p[1], c)
              /\ mapping[c] = EntryAt(p).d[c - EntryAt(p).s + 1]

(***************************************************************************)
(* scripts/extract_facilities.py, main with load_cmap and extract_lines    *)
(* (SpecEF).                                                               *)
(***************************************************************************)
\* The mapping load_cmap yields for the container, the empty one when the
\* slicing raises.
LoadedCmap == ParseCmap(LocateCmapText(raw_pdf).cmap_text)

\* The container has no character-map object, or its character map has no
\* entry.
NoUsableCmap == MarkerSegments(raw_pdf) = {} \/ LoadedCmap = <<>>

\* C9: whenever the container has no character-map object or the parsed
\* character map has zero entries, the run has failed once load_cmap is
\* over, before extract_lines handled any stream and before any line was
\* returned; it never continues with an empty mapping.
C9_NoCmapIsFatal ==
    (ef_pc \in {"lines", "parse", "raised"} /\ NoUsableCmap)
        => /\ ef_pc = "raised"
           /\ ef_k = 0
           /\ text_blocks = <<>>
           /\ lines = <<>>

\* A segment whose deflate decompression fails.
FailsDeflate(seg) == seg.head_x9c /\ ~seg.deflate_ok

\* The block texts of the segments other than the failing ones.
RECURSIVE BlocksOfOthers(_, _)
BlocksOfOthers(pdf, table) ==
    IF pdf = <<>> THEN <<>>
    ELSE LET seg == Head(pdf)
             rest == BlocksOfOthers(Tail(pdf), table)
         IN  IF seg.terminated /\ ~FailsDeflate(seg)
                /\ Strip(BlockText(seg, table)) # <<>>
             THEN <<BlockText(seg, table)>> \o rest
             ELSE rest

\* C10: a stream segment that fails deflate decompression never aborts the
\* extraction: no decompression error leaves extract_lines, and the lines
\* returned are those of every other segment.
C10_FailingSegmentSkipped ==
    /\ ef_error # "zlib.error"
    /\ ef_pc = "parse" => lines = FilterLines(BlocksOfOthers(raw_pdf, cmap))

(***************************************************************************)
(* scripts/generate_site.py, extract_streams and the head of               *)
(* extract_facilities (SpecXS).                                            *)
(***************************************************************************)
\* The data of the regions that zlib accepts, in order.
RECURSIVE InflatedOf(_)
InflatedOf(regions) ==
    IF regions = <<>> THEN <<>>
    ELSE IF Head(regions).terminated /\ Head(regions).deflate_ok
    THEN <<Head(regions).data>> \o InflatedOf(Tail(regions))
    ELSE InflatedOf(Tail(regions))

\* C11: extract_streams returns only segments that decompressed
\* successfully: a region whose bytes are not valid deflate data
\* contributes no element to the list, so the mapping build_cmap returns is
\* that of the decompressed regions alone.
C11_OnlyInflatedStreams ==
    /\ xs_pc # "off" => streams = InflatedOf(SubSeq(pdf_bytes, 1, xs_k))
    /\ xs_pc \in {"decode", "clean"} =>
           xs_cmap = build_cmap(InflatedOf(pdf_bytes))

(***************************************************************************)
(* generate_sites.py, parse_facilities and main (SpecGM).                  *)
(***************************************************************************)
\* C12: every Facility of parse_facilities, in the list being built and in
\* the list returned, has capacity >= 0 and an address that is non-empty
\* and begins with the address prefix, for every input text.
C12_CapacityAndAddressInvariant ==
    \A i \in Idx(gm_facilities) :
        /\ gm_facilities[i].capacity >= 0
        /\ gm_facilities[i].address # <<>>
        /\ StartsWith(gm_facilities[i].address, AddressPrefix)

\* parse_facilities returned two records or more, one of capacity 0 and one
\* whose address reaches past the first HAO after the prefix.
C12_Witness ==
    /\ gm_pc = OutputSteps[1]
    /\ Len(gm_facilities) >= 2
    /\ \E i \in Idx(gm_facilities) : gm_facilities[i].capacity = 0
    /\ \E i \in Idx(gm_facilities) :
           Len(SelectSeq(gm_facilities[i].address, LAMBDA ch : ch = "HAO")) = 2

\* The steps of main that follow a return of parse_facilities.
AfterParse == {OutputSteps[i] : i \in Idx(OutputSteps)} \cup {"done"}

\* C17: whenever parsing produces zero records, parse_facilities raises an
\* error that reaches the caller, and main performs none of the output
\* steps: once parse_facilities is over with no record, the run has raised
\* and no output step was performed; an output step implies a record.
C17_ZeroRecordsIsFatal ==
    /\ (gm_pc \in AfterParse \cup {"raised"} /\ gm_facilities = <<>>)
           => (gm_pc = "raised" /\ gm_outputs = <<>>)
    /\ gm_outputs # <<>> => gm_facilities # <<>>

\* The text holds the district literal but no row: the error is the one of
\* lines 94-95, raised after the loops.
C17_Witness ==
    /\ gm_pc = "raised"
    /\ FindDistrict(gm_text) # 0
    /\ gm_text # <<>>
    /\ gm_entries = <<>>
    /\ gm_outputs = <<>>

(***************************************************************************)
(* scripts/generate_site.py, assemble_rows and finalize_facilities on      *)
(* token lists (SpecST).                                                   *)
(***************************************************************************)
\* No token of the list is a capacity+precinct token (line 107: a token
\* that starts with a digit).
NoCapacityToken == \A n \in Idx(sections) : ~IsDigit(sections[n][1])

\* C13: a filtered token sequence that contains no capacity+precinct token
\* yields zero finalized records: assemble_rows closes no row and
\* finalize_facilities builds no record, in particular none whose capacity
\* is None.
C13_NoTerminalNoRecords ==
    (st_pc \in {"finalize", "done"} /\ NoCapacityToken)
        => (rows = <<>> /\ st_facilities = <<>>)

\* C20: the six-token sequence [district, village, name, address, capacity
\* digits, precinct name] yields exactly one record whose district,
\* village, name and address are those tokens, whose capacity is the
\* value of the digits and whose division is the precinct token.
C20_SixTokensOneRecord ==
    (st_pc = "done" /\ sections \in SixTokenRows)
        => /\ Len(st_facilities) = 1
           /\ st_facilities[1].district = sections[1]
           /\ st_facilities[1].village = sections[2]
           /\ st_facilities[1].name = sections[3]
           /\ st_facilities[1].address = sections[4]
           /\ st_facilities[1].capacity = StrToInt(sections[5])
           /\ st_facilities[1].division = sections[6]

(***************************************************************************)
(* scripts/extract_facilities.py, parse_facilities and the slug loop of    *)
(* main, and two runs of the script (SpecEF).                              *)
(***************************************************************************)
\* One of the pending lines is an address line.
HasAddressLine(pending) ==
    \E n \in Idx(pending) : StartsWith(pending[n], TaiNanShi)

\* The lists parse_facilities holds after the lines ls under the policy of
\* discarding the pending lines of a terminal line without address line.
RECURSIVE DiscardingParse(_, _, _)
DiscardingParse(ls, pending, facs) ==
    IF ls = <<>> THEN [pending |-> pending, facilities |-> facs]
    ELSE IF CapBranchDigits(Head(ls)) = 0
    THEN DiscardingParse(Tail(ls), Append(pending, Head(ls)), facs)
    ELSE IF HasAddressLine(pending)
    THEN DiscardingParse(Tail(ls), <<>>,
                         Append(facs, FacilityOf(pending, Head(ls))))
    ELSE DiscardingParse(Tail(ls), <<>>, facs)

\* C14: when parse_facilities meets a terminal line while none of the
\* pending lines is an address line, the partial record is discarded: no
\* Facility is appended for it, pending is cleared, and the following
\* records are still assembled.
C14_TerminalWithoutAddressDiscarded ==
    ef_pc = "parse" =>
        LET expected == DiscardingParse(SubSeq(lines, 1, ef_i), <<>>, <<>>)
        IN  /\ ef_pending = expected.pending
            /\ ef_facilities = expected.facilities

\* The table head of line 111.
HeaderText == <<21312, 21029, 37324, 21029, 21517, 31281, 22320, 22336>>

\* The table head occurs in a line of the decoded text.
HeaderInLineStream ==
    \E n \in Idx(AllLines(text_blocks)) :
        Contains(AllLines(text_blocks)[n], HeaderText)

\* C15: if the boilerplate token of the table head occurs anywhere in the
\* decoded line stream, no Facility of parse_facilities has a name,
\* address, branch, district or li that contains it.
C15_HeaderNeverInFields ==
    (ef_pc \in {"parse", "slug", "done"} /\ HeaderInLineStream) =>
        \A n \in Idx(ef_facilities) :
            /\ ~Contains(ef_facilities[n].name, HeaderText)
            /\ ~Contains(ef_facilities[n].address, HeaderText)
            /\ ~Contains(ef_facilities[n].branch, HeaderText)
            /\ ~Contains(ef_facilities[n].district, HeaderText)
            /\ ~Contains(ef_facilities[n].li, HeaderText)

RECURSIVE AlnumRuns(_, _)
AlnumRuns(name, run) ==
    IF name = <<>> THEN (IF run = <<>> THEN <<>> ELSE <<run>>)
    ELSE IF IsAsciiAlnumCp(Head(name))
    THEN AlnumRuns(Tail(name), Append(run, Head(name)))
    ELSE (IF run = <<>> THEN <<>> ELSE <<run>>) \o AlnumRuns(Tail(name), <<>>)

\* The runs joined by a hyphen.
RECURSIVE JoinHyphen(_)
JoinHyphen(runs) ==
    IF Len(runs) = 1 THEN runs[1]
    ELSE runs[1] \o <<Hyphen>> \o JoinHyphen(Tail(runs))

\* facility-<sequence>, the sequence written with three digits at least.
ExpectedFallback(sequence) ==
    FacilityCps \o <<Hyphen>> \o
        (IF sequence < 1000
         THEN <<48 + (sequence \div 100), 48 + ((sequence \div 10) % 10),
                48 + (sequence % 10)>>
         ELSE DigitsCp(sequence))

\* The slug the statement describes for (sequence, name).
ExpectedSlug(sequence, name) ==
    IF AlnumRuns(name, <<>>) = <<>> THEN ExpectedFallback(sequence)
    ELSE ExpectedFallback(sequence) \o <<Hyphen>>
            \o LowerCp(JoinHyphen(AlnumRuns(name, <<>>)))

\* The records main has given a slug.
Slugged ==
    IF ef_pc = "slug" THEN 1..ef_idx
    ELSE IF ef_pc = "done" THEN Idx(ef_facilities)
    ELSE {}

\* The records of a finished run; main changes no name after parse_facilities.
Finished == IF ef_pc = "done" THEN Idx(ef_facilities) ELSE {}

\* Sequence indices of one to four digits.
SampleSequences == {1, 2, 9, 10, 11, 99, 100, 101, 999, 1000, 1001}

\* C19: slugify(sequence, name) is the fallback facility-<sequence> (three
\* digits, zero-padded) when name has no ASCII letter or digit, otherwise
\* that fallback, a hyphen and the lower-cased ASCII alphanumeric runs of
\* name joined by hyphens; the slugs main assigns to records of different
\* sequence indices are different, and so are the slugs of the records'
\* names at any two different indices.
C19_SlugFromSequenceAndName ==
    /\ \A n \in Slugged :
           ef_facilities[n].slug = ExpectedSlug(n, ef_facilities[n].name)
    /\ \A m, n \in Slugged :
           m # n => ef_facilities[m].slug # ef_facilities[n].slug
    /\ \A m \in Finished : \A i \in SampleSequences :
           ef_slugify(i, ef_facilities[m].name)
               = ExpectedSlug(i, ef_facilities[m].name)
    /\ \A m, n \in Finished : \A i, j \in SampleSequences :
           i < j => ef_slugify(i, ef_facilities[m].name)
                        # ef_slugify(j, ef_facilities[n].name)

\* main gave slugs to two records of the same name, which holds ASCII
\* letters between other characters.
C19_Witness ==
    /\ ef_pc = "done"
    /\ \E m, n \in Slugged :
           /\ m # n
           /\ ef_facilities[m].name = ef_facilities[n].name
           /\ AlnumRuns(ef_facilities[m].name, <<>>) # <<>>
           /\ ~IsAsciiAlnumCp(ef_facilities[m].name[1])

(***************************************************************************)
(* scripts/extract_shelters.py, the entries of extract_shelters (SpecSH).  *)
(***************************************************************************)
\* The records of the entries that _parse_entry can parse, in order.
RECURSIVE ParsableRecords(_)
ParsableRecords(es) ==
    IF es = <<>> THEN <<>>
    ELSE IF parse_entry(Head(es)).raised THEN ParsableRecords(Tail(es))
    ELSE <<parse_entry(Head(es)).record>> \o ParsableRecords(Tail(es))

\* C18: an entry whose capacity or village cannot be parsed by
\* _parse_entry is discarded and extract_shelters still returns the
\* records of all the other entries; one unparsable entry never aborts the
\* extraction.
C18_UnparsableEntryDiscarded ==
    /\ sh_pc # "raised"
    /\ sh_pc = "done" => shelters = ParsableRecords(sh_entries)

(***************************************************************************)
(* scripts/generate_site.py, the rows of assemble_rows (SpecST).           *)
(***************************************************************************)
\* The positions of the tokens that start with the district.
DistrictPositions == {i \in Idx(sections) : StartsWith(sections[i], District)}

\* The position of the k-th token that starts with the district.
KthStart(k) ==
    CHOOSE i \in DistrictPositions :
        Cardinality({j \in DistrictPositions : j <= i}) = k

\* The positions of the tokens from the k-th district token up to the next
\* one (or the end of the list).
RowSpan(k) ==
    LET last == IF k < Cardinality(DistrictPositions)
                THEN KthStart(k + 1) - 1
                ELSE Len(sections)
    IN  KthStart(k)..last

\* assemble_rows has returned.
Assembled == st_pc \in {"finalize", "done"}

\* The tokens held by a row, in any of its three fields.
RowTokens(row) ==
    {row.name_parts[i] : i \in Idx(row.name_parts)}
        \cup {row.address_parts[i] : i \in Idx(row.address_parts)}
        \cup (IF row.capacity_division = <<>> THEN {}
              ELSE {row.capacity_division})

\* C24: once assemble_rows has consumed the capacity+precinct token of a
\* row, that row is closed: no later token is appended to that row's name
\* or address, and later tokens can only contribute to a following row.
C24_RowClosedAfterCapacity ==
    [][(/\ st_pc = "assemble"
        /\ current # <<>>
        /\ current[1].capacity_division # <<>>
        /\ current' # <<>>
        /\ rows' = rows)
       => /\ current'[1].name_parts = current[1].name_parts
          /\ current'[1].address_parts = current[1].address_parts]_vars

\* C27: for every token list, assemble_rows returns exactly one row per
\* token that starts with the district, in the order of those tokens (the
\* k-th row opens with the k-th such token and holds only tokens found from
\* there up to the next such token), so every token that precedes the
\* first such token appears in no row.
C27_OneRowPerDistrictToken ==
    Assembled =>
        /\ Len(rows) = Cardinality(DistrictPositions)
        /\ \A k \in Idx(rows) :
               /\ rows[k].name_parts # <<>>
               /\ rows[k].name_parts[1] = sections[KthStart(k)]
               /\ RowTokens(rows[k]) \subseteq
                      {sections[i] : i \in RowSpan(k)}
               /\ Len(rows[k].name_parts) + Len(rows[k].address_parts)
                      <= Cardinality(RowSpan(k))

\* Two rows were returned from a list whose first token opens no row.
C27_Witness ==
    /\ Assembled
    /\ Len(rows) >= 2
    /\ ~StartsWith(sections[1], District)
    /\ sections[KthStart(1)] # sections[KthStart(2)]

\* The positions of the digit-leading tokens of the k-th row's span.
DigitLeading(k) == {i \in RowSpan(k) : IsDigit(sections[i][1])}

\* C28: once a row is open, every token that begins with a decimal digit
\* is that row's capacity+precinct token, replacing any earlier one: the
\* row's capacity_division is the last such token of the row (none when
\* the row has no such token), and no digit-leading token is in the name
\* or the address.
C28_LastDigitTokenIsCapacity ==
    Assembled =>
        \A k \in Idx(rows) :
            /\ rows[k].capacity_division =
                   IF DigitLeading(k) = {} THEN <<>>
                   ELSE sections[CHOOSE i \in DigitLeading(k) :
                                     \A j \in DigitLeading(k) : j <= i]
            /\ \A i \in Idx(rows[k].name_parts) :
                   ~IsDigit(rows[k].name_parts[i][1])
            /\ \A i \in Idx(rows[k].address_parts) :
                   ~IsDigit(rows[k].address_parts[i][1])

\* A row whose span holds two different digit-leading tokens.
C28_Witness ==
    /\ Assembled
    /\ \E k \in Idx(rows) :
           \E i, j \in DigitLeading(k) :
               /\ i < j
               /\ sections[i] # sections[j]
               /\ rows[k].capacity_division = sections[j]

(***************************************************************************)
(* scripts/extract_facilities.py, name and address of a record (SpecEF).   *)
(***************************************************************************)
\* The positions of the terminal lines among the filtered lines.
TerminalPositions == {i \in Idx(lines) : CapBranchDigits(lines[i]) > 0}

\* The position of the k-th terminal line.
KthTerminal(k) ==
    CHOOSE i \in TerminalPositions :
        Cardinality({j \in TerminalPositions : j <= i}) = k

\* The lines pending before the k-th terminal line.
PendingBefore(k) ==
    SubSeq(lines, IF k = 1 THEN 1 ELSE KthTerminal(k - 1) + 1,
           KthTerminal(k) - 1)

\* The places of the lines of p that start with 臺南市.
AddressStarts(p) == {i \in Idx(p) : StartsWith(p[i], TaiNanShi)}

\* The place where the address of p starts: its first line that starts
\* with 臺南市, past the end when there is none.
AddressFrom(p) ==
    IF AddressStarts(p) = {} THEN Len(p) + 1
    ELSE CHOOSE i \in AddressStarts(p) : \A j \in AddressStarts(p) : i <= j

\* parse_facilities has run over some of the lines.
Parsing == ef_pc \in {"parse", "slug", "done"}

\* C23: parse_facilities splits the lines pending before a terminal line
\* as the state machine prescribes: every pending line before the first
\* line starting with 臺南市 goes to the name, and that line and every
\* pending line after it go to the address, in their original order; no
\* line after the address has started is added to the name.
C23_PendingSplitAtFirstAddressLine ==
    Parsing =>
        \A k \in Idx(ef_facilities) :
            LET p == PendingBefore(k)
                a == AddressFrom(p)
            IN  /\ ef_facilities[k].name = Strip(Concat(SubSeq(p, 1, a - 1)))
                /\ ef_facilities[k].address =
                       Strip(Concat(SubSeq(p, a, Len(p))))

\* A record whose pending lines hold a name line, then a line starting
\* with 臺南市, then a line that does not start with it.
C23_Witness ==
    /\ Parsing
    /\ \E k \in Idx(ef_facilities) :
           LET p == PendingBefore(k)
               a == AddressFrom(p)
           IN  /\ 1 < a
               /\ a < Len(p)
               /\ ~StartsWith(p[Len(p)], TaiNanShi)
               /\ ef_facilities[k].name # <<>>

\* The places of the stripped lines that hold none of the seven patterns
\* of lines 110-118.
KeptPlaces(all) ==
    {i \in Idx(all) :
        \A pat \in SkipPatterns :
            \A at \in Idx(all[i]) :
                \/ at + Len(pat) - 1 > Len(all[i])
                \/ \E o \in Idx(pat) : all[i][at + o - 1] # pat[o]}

\* The n-th smallest place of a set of places.
NthPlace(places, n) ==
    CHOOSE i \in places : Cardinality({j \in places : j <= i}) = n

\* extract_lines has returned.
LinesReturned == ef_pc = "parse" /\ ef_i = 0

\* C30: the filter of extract_lines removes a stripped, non-empty line if
\* and only if the line contains at least one of the seven configured
\* patterns as a substring; every other line is kept, and kept lines keep
\* their relative order.
C30_FilterRemovesExactlyPatternLines ==
    LinesReturned =>
        LET all == AllLines(text_blocks)
            kept == KeptPlaces(all)
        IN  /\ Len(lines) = Cardinality(kept)
            /\ \A n \in Idx(lines) : lines[n] = all[NthPlace(kept, n)]

\* A line that holds a pattern after another character was removed, and
\* lines before and after it were kept.
C30_Witness ==
    /\ LinesReturned
    /\ LET all == AllLines(text_blocks)
       IN  \E i \in Idx(all) :
               /\ i \notin KeptPlaces(all)
               /\ all[i] \notin SkipPatterns
               /\ \E h, j \in KeptPlaces(all) : h < i /\ i < j

(***************************************************************************)
(* scripts/extract_facilities.py, the keys of load_cmap (SpecCM).          *)
(***************************************************************************)
\* The code lies inside the [start, end] interval of a declared bfrange
\* entry, with a base or with an array.
InDeclaredRange(c) ==
    \E p \in RangePlaces : EntryAt(p).s <= c /\ c <= EntryAt(p).e

\* C26: every key of the mapping returned by load_cmap is a source code of
\* a bfchar pair or lies inside the [start, end] interval of a declared
\* bfrange entry; the destination values listed inside a bfrange array
\* never create mappings for other codes.
C26_KeysAreDeclaredCodes ==
    cm_pc = "done" =>
        \A c \in DOMAIN mapping :
            \/ \E k \in Idx(cm_items.bfchar) :
                   \E n \in Idx(cm_items.bfchar[k]) :
                       cm_items.bfchar[k][n].s = c
            \/ InDeclaredRange(c)

(***************************************************************************)
(* scripts/extract_shelters.py, the entries of _split_entries (SpecSH).    *)
(***************************************************************************)
\* The rows of the form district + body + branch among the pieces.
SampleRows ==
    {c \in ShelterChunks :
        /\ Len(c) >= Len(District) + Len(ShelterBranch)
        /\ StartsWith(c, District)
        /\ EndsWith(c, ShelterBranch)}

\* The body of a row.
BodyOf(row) ==
    SubSeq(row, Len(District) + 1, Len(row) - Len(ShelterBranch))

\* A body that is not empty, has no white space at either end, does not
\* start with the district and does not hold the separator.
PlainBody(b) ==
    /\ b # <<>>
    /\ b[1] # " "
    /\ b[Len(b)] # " "
    /\ ~StartsWith(b, District)
    /\ \A i \in Idx(b) : ~StartsWith(DropFirst(b, i - 1), EntrySeparator)

PlainRows == {r \in SampleRows : PlainBody(BodyOf(r))}

\* The lists of one to MaxPieces rows.
RowLists(row_set) == UNION {[1..k -> row_set] : k \in 1..MaxPieces}

\* _split_entries has returned.
SplitDone == sh_pc \in {"parse", "done", "raised"}

\* C29 as stated: for every cleaned text that is the concatenation of
\* k >= 1 rows of the form district + body + branch, whatever the body,
\* _split_entries returns exactly k entries whose concatenation equals the
\* text.
C29_Original ==
    SplitDone =>
        \A rs \in RowLists(SampleRows) :
            clean_text = Concat(rs) =>
                /\ Len(sh_entries) = Len(rs)
                /\ Concat(sh_entries) = clean_text

\* C29: for every cleaned text that is the concatenation of k >= 1 rows,
\* each of the form district + body + branch with a body that is not
\* empty, has no white space at its ends, does not start with the district
\* and does not hold the separator, _split_entries returns exactly k
\* entries, in order, whose concatenation equals the input text.
C29_PlainRowsSplitBack ==
    SplitDone =>
        \A rs \in RowLists(PlainRows) :
            clean_text = Concat(rs) =>
                /\ Len(sh_entries) = Len(rs)
                /\ sh_entries = rs
                /\ Concat(sh_entries) = clean_text

\* A text of three plain rows, not all the same, was split.
C29_Witness ==
    /\ SplitDone
    /\ \E rs \in [1..3 -> PlainRows] :
           /\ clean_text = Concat(rs)
           /\ rs[1] # rs[2]
           /\ Len(sh_entries) = 3

(***************************************************************************)
(* scripts/generate_pages.py, the records of extract_facilities (SpecGP).  *)
(***************************************************************************)
\* The entries of an inflated stream in emission order, before the sort.
EmittedEntries(stream) == iter_text_entries(stream, gp_cmap, FALSE, 0)

\* The capacities of the capacity+precinct texts of a list of entries, in
\* the order of the list.
RECURSIVE CapacitiesOf(_)
CapacitiesOf(es) ==
    IF es = <<>> THEN <<>>
    ELSE (IF /\ Contains(Head(es)[2], Branch)
             /\ ~CapacityRaises(RemoveBranch(Head(es)[2]))
          THEN <<StrToInt(RemoveBranch(Head(es)[2]))>>
          ELSE <<>>)
         \o CapacitiesOf(Tail(es))

\* The capacities of the records of one page, in the order of the list
\* extract_facilities returns.
RECURSIVE PageCapacities(_, _)
PageCapacities(facs, page_index) ==
    IF facs = <<>> THEN <<>>
    ELSE (IF Head(facs).page = page_index THEN <<Head(facs).capacity>>
          ELSE <<>>)
         \o PageCapacities(Tail(facs), page_index)

\* a can be obtained from b by leaving elements out.
RECURSIVE IsSubsequence(_, _)
IsSubsequence(a, b) ==
    IF a = <<>> THEN TRUE
    ELSE IF b = <<>> THEN FALSE
    ELSE IF Head(a) = Head(b) THEN IsSubsequence(Tail(a), Tail(b))
    ELSE IsSubsequence(a, Tail(b))

\* C21: extract_facilities emits the records of one content stream in the
\* emission order of their terminal (capacity+precinct) text operations in
\* that stream, for any vertical positions set by the Tm operators: the
\* capacities of the records of a page, in list order, are found in that
\* order among the capacity texts the stream emits.
C21_RecordsInEmissionOrder ==
    gp_pc = "done" =>
        \A p \in 2..Len(flate_streams) :
            IsSubsequence(PageCapacities(gp_facilities, p - 1),
                          CapacitiesOf(EmittedEntries(flate_streams[p])))

\* The places (counted from 0) of the sorted entries of an inflated stream
\* that close a record.
ClosingPlaces(stream) ==
    LET es == SortedEntries(stream, gp_cmap)
    IN  {idx \in 0..(Len(es) - 1) : ClosesRecord(es, idx)}

\* The number of closing places of the inflated streams from number p on.
RECURSIVE ClosingCount(_)
ClosingCount(p) ==
    IF p > Len(flate_streams) THEN 0
    ELSE (IF IterRaises(flate_streams[p], FALSE) THEN 0
          ELSE Cardinality(ClosingPlaces(flate_streams[p])))
         + ClosingCount(p + 1)

\* C22: every FlateDecode stream that decompresses successfully has its
\* text entries scanned for records, in container order: a terminal token
\* in any such stream, the first one included, produces a record, so the
\* list holds one record per closing entry of all the inflated streams.
C22_EveryInflatedStreamScanned ==
    gp_pc = "done" => Len(gp_facilities) = ClosingCount(1)

\* The texts of the entries of an inflated stream are pairwise different.
DistinctTexts(stream) ==
    LET es == EmittedEntries(stream)
    IN  \A i, j \in Idx(es) : i # j => es[i][2] # es[j][2]

\* The texts a record took from entries as its fields.
FieldTexts(fac) == {fac.name, fac.address, fac.locality}

\* C25: every text entry of a stream contributes to at most one Facility
\* returned by extract_facilities: no entry is used as a field (name,
\* address or locality) of two different records.  Entries are told apart
\* by their texts, in the streams whose texts are pairwise different.
C25_EntryInAtMostOneRecord ==
    gp_pc = "done" =>
        \A m, n \in Idx(gp_facilities) :
            (/\ m < n
             /\ gp_facilities[m].page = gp_facilities[n].page
             /\ DistinctTexts(flate_streams[gp_facilities[m].page + 1]))
            => FieldTexts(gp_facilities[m]) \cap FieldTexts(gp_facilities[n])
                   = {}

====
